---- MODULE Spec2Model ----
(***************************************************************************)
(* Keystone Redactor Framework: placeholder redaction and restoration.     *)
(*                                                                         *)
(* Strings are sequences of one-character strings.  A working text is a    *)
(* sequence of cells [c |-> character, src |-> origin]: src is the 1-based *)
(* position of the character in the text the operation started from, and  *)
(* 0 for a character the operation inserted.  The program's string is the  *)
(* projection Chars(t); every decision of the code (slicing, `in`,         *)
(* str.replace) reads the characters only.                                 *)
(***************************************************************************)
EXTENDS Integers, Sequences, FiniteSets, TLC

VARIABLES
    pc,                 \* position of the running operation
    nlp,                \* PIIDetector.nlp: the spaCy model, or None
    candidates,         \* PIIDetector.detect: local `all_entities`
    program,            \* the script that runs the pipeline: "demo.py", "llm_client.py", or None
    gemini_client,      \* GeminiClient: GEMINI_API_KEY of the environment, model, api_key_found
    sent_prompts,       \* the prompts handed to model.generate_content, in order
    text,               \* PIIDetector.detect / Redactor.redact: the argument `text`
    entities,           \* Redactor.redact / PIIDetector: the argument `entities`
    labels_to_redact,   \* Redactor.redact: the argument `labels_to_redact`
    sorted_entities,    \* Redactor.redact: local `sorted_entities`
    idx,                \* position of the running for-loop (1-based)
    label_counts,       \* Redactor.redact: local `label_counts`
    redacted_text,      \* Redactor.redact: local `redacted_text` (cells)
    placeholder_map,    \* Redactor.redact / Restorer.restore: the dict, in insertion order
    assigned,           \* history: the placeholder given in each loop iteration
    llm_output,         \* Restorer.restore: the argument `llm_output`
    restored_text,      \* Restorer.restore: local `restored_text` (cells)
    restored_log,       \* Restorer.restore: placeholders of the logging.info lines
    warned_log,         \* Restorer.restore: placeholders of the logging.warning lines
    previous,           \* caller: the result of an earlier restore with the same map, if any
    ocr_reader,         \* ImageDetector.ocr_reader: "easyocr", or None
    enable_object_detection, \* ImageDetector.enable_object_detection (with yolo_model set)
    _face_counter,      \* ImageDetector._face_counter
    _text_counter,      \* ImageDetector._text_counter
    _object_counter,    \* ImageDetector._object_counter
    all_entities,       \* ImageDetector.detect: the returned entity list
    metadata,           \* ImageDetector.detect: the returned DetectionMetadata
    backend_answers,    \* ImageDetector.detect: what the three backends answer, where a run is followed source by source
    source_runs,        \* ImageDetector.detect_*: position and `results` of each running source
    draw_borders,       \* ImageRedactor.draw_borders
    image,              \* ImageRedactor.redact: the mode of the image Image.open returned, or None
    redacted_image,     \* ImageRedactor.redact: the returned image: its mode and the drawing done on it
    raised,             \* ImageRedactor.redact: the exception surfaced to the caller, or None
    redacted_log,       \* ImageRedactor.redact: placeholders of the "Redacted entity" log lines
    skipped_log,        \* ImageRedactor.redact: placeholders of the "missing a bounding box" warnings
    failed_log,         \* ImageRedactor.redact: placeholders of the "Failed to redact entity" errors
    mapping,            \* ImageRedactor.redact / ImageRestorer.restore: the mapping, in insertion order
    restoration_stats   \* ImageRestorer.restore: the returned statistics

vars == <<pc, nlp, candidates, program, gemini_client, sent_prompts, text, entities, labels_to_redact, sorted_entities, idx, label_counts,
          redacted_text, placeholder_map, assigned, llm_output, restored_text,
          restored_log, warned_log, previous, ocr_reader, enable_object_detection,
          _face_counter, _text_counter, _object_counter, all_entities, metadata,
          backend_answers, source_runs,
          draw_borders, image, redacted_image, raised, redacted_log, skipped_log, failed_log, mapping,
          restoration_stats>>

textVars == <<text, entities, labels_to_redact, sorted_entities, label_counts,
              redacted_text, assigned>>
detectVars == <<nlp, candidates, program, gemini_client, sent_prompts>>
restoreVars == <<llm_output, restored_text, restored_log, warned_log, previous>>
detectorVars == <<ocr_reader, enable_object_detection, _face_counter, _text_counter,
                  _object_counter, all_entities, metadata, backend_answers,
                  source_runs>>
imageVars == <<ocr_reader, enable_object_detection, _face_counter, _text_counter,
               _object_counter, all_entities, metadata, backend_answers,
               source_runs, draw_borders, image, redacted_image,
               raised, redacted_log, skipped_log, failed_log, mapping, restoration_stats>>

----------------------------------------------------------------------------
(* Bounds of the model *)

MaxTextLen == 3
MaxEntities == 2
MaxCandidates == 3
MaxOutAtoms == 3
MaxMapEntries == 2
MaxDetections == 3
MaxSameType == 27

\* Python None where the other values are strings
None == "None"

\* Python None, and a value x, where the other values are sequences
Nothing == <<>>

Some(x) == <<x>>

----------------------------------------------------------------------------
(* Strings *)

Min(a, b) == IF a < b THEN a ELSE b

Max(a, b) == IF a > b THEN a ELSE b

\* All sequences over S of length at most n
BoundedSeq(S, n) == UNION {[1..k -> S] : k \in 0..n}

\* Python s[lo:hi] for 0 <= lo, 0 <= hi (both clamped to len(s))
PySlice(s, lo, hi) == SubSeq(s, Min(lo, Len(s)) + 1, Min(hi, Len(s)))

\* The characters of a working text
Chars(t) == [i \in 1..Len(t) |-> t[i].c]

\* A text the operation starts from: every character is its own origin
Tag(s) == [i \in 1..Len(s) |-> [c |-> s[i], src |-> i]]

\* Characters the operation inserts
Fresh(s) == [i \in 1..Len(s) |-> [c |-> s[i], src |-> 0]]

\* A match that does not compare the character before the closing bracket
MatchIgnoringId(t, sub, k) ==
    /\ k + Len(sub) <= Len(t)
    /\ \A i \in 1..Len(sub) : i = Len(sub) - 1 \/ t[k + i].c = sub[i]

\* Python `sub in s` at 0-based offset k
MatchAt(t, sub, k) ==
    /\ k + Len(sub) <= Len(t)
    /\ \A i \in 1..Len(sub) : t[k + i].c = sub[i]

\* Python `sub in s`
Contains(t, sub) == \E k \in 0..Len(t) : MatchAt(t, sub, k)

\* Python s.replace(old, new): left to right, non-overlapping occurrences.
\* An empty `old` matches before every character and at the end.
RECURSIVE ReplaceFrom(_, _, _, _)
ReplaceFrom(t, old, new, k) ==
    IF k > Len(t) THEN <<>>
    ELSE IF Len(old) = 0
         THEN Fresh(new) \o (IF k < Len(t)
                             THEN <<t[k + 1]>> \o ReplaceFrom(t, old, new, k + 1)
                             ELSE <<>>)
    ELSE IF MatchAt(t, old, k)
         THEN Fresh(new) \o ReplaceFrom(t, old, new, k + Len(old))
    ELSE IF k < Len(t)
         THEN <<t[k + 1]>> \o ReplaceFrom(t, old, new, k + 1)
    ELSE <<>>

Replace(t, old, new) == ReplaceFrom(t, old, new, 0)

----------------------------------------------------------------------------
(* Placeholders *)

Letters == <<"A", "B", "C", "D", "E", "F", "G", "H", "I", "J", "K", "L", "M",
             "N", "O", "P", "Q", "R", "S", "T", "U", "V", "W", "X", "Y", "Z">>

Digits == <<"0", "1", "2", "3", "4", "5", "6", "7", "8", "9">>

\* Python str(n) for n >= 0
RECURSIVE Str(_)
Str(n) == IF n < 10 THEN <<Digits[n + 1]>>
          ELSE Str(n \div 10) \o <<Digits[(n % 10) + 1]>>

\* IDs that go on as spreadsheet columns do: ..., Z, AA, AB, ...
SpreadsheetId(count) ==
    IF count < 26 THEN <<Letters[count + 1]>>
    ELSE <<Letters[count \div 26], Letters[(count % 26) + 1]>>

_generate_placeholder_id(count) ==
    IF count < 26 THEN <<Letters[count + 1]>> ELSE Str(count)

\* f"[{label}_{placeholder_id}]"
Placeholder(label, placeholder_id) ==
    <<"[">> \o label \o <<"_">> \o placeholder_id \o <<"]">>

----------------------------------------------------------------------------
(* Inputs *)

\* Characters of a document outside placeholders
TextAlphabet == {"a", "b"}

\* Entity labels.  A label may itself contain "_" (WORK_OF_ART is one of
\* PIIDetector.DEFAULT_LABELS), so "P" and "P_A" are both labels.
Labels == {<<"P">>, <<"P", "_", "A">>}

\* What a detection source reports for the span [s, e) of document T
\* (PIIDetector._find_emails: match.group(0), "EMAIL", match.start(), match.end())
EntityAt(T, l, s, e) ==
    [entity |-> PySlice(T, s, e), label |-> l, start |-> s, end |-> e]

Spans(n) == {se \in (0..n) \X (0..n) : se[1] <= se[2]}

EntitiesIn(T) == {EntityAt(T, l, se[1], se[2]) : l \in Labels, se \in Spans(Len(T))}

----------------------------------------------------------------------------
(* Redactor.redact (src/redactor/redactor.py) *)

\* `if labels_to_redact:` is false for None and for the empty list
Truthy(labels) == labels /= Nothing /\ Len(labels[1]) > 0

InList(x, list) == \E i \in 1..Len(list) : list[i] = x

\* [e for e in entities if e['label'] in labels_to_redact], or entities
RECURSIVE FilterByLabel(_, _)
FilterByLabel(es, labels) ==
    IF es = <<>> THEN <<>>
    ELSE IF InList(Head(es).label, labels)
         THEN <<Head(es)>> \o FilterByLabel(Tail(es), labels)
         ELSE FilterByLabel(Tail(es), labels)

EntitiesToProcess(es, labels) ==
    IF Truthy(labels) THEN FilterByLabel(es, labels[1]) ELSE es

\* sorted(..., key=start, reverse=True) is stable: entities of equal start keep
\* their order.  InsertDesc puts e behind every entity whose start is >= its own.
RECURSIVE InsertDesc(_, _)
InsertDesc(s, e) ==
    IF s = <<>> THEN <<e>>
    ELSE IF Head(s).start >= e.start
         THEN <<Head(s)>> \o InsertDesc(Tail(s), e)
         ELSE <<e>> \o s

RECURSIVE InsertAsc(_, _)
InsertAsc(s, e) ==
    IF s = <<>> THEN <<e>>
    ELSE IF Head(s).start <= e.start
         THEN <<Head(s)>> \o InsertAsc(Tail(s), e)
         ELSE <<e>> \o s

RECURSIVE SortedAscFrom(_, _, _)
SortedAscFrom(es, k, acc) ==
    IF k > Len(es) THEN acc ELSE SortedAscFrom(es, k + 1, InsertAsc(acc, es[k]))

RECURSIVE SortedDescFrom(_, _, _)
SortedDescFrom(es, k, acc) ==
    IF k > Len(es) THEN acc ELSE SortedDescFrom(es, k + 1, InsertDesc(acc, es[k]))

\* The order without reverse=True
SortByStartAscending(es) == SortedAscFrom(es, 1, <<>>)

\* sorted(entities_to_process, key=lambda e: e['start'], reverse=True)
SortByStartDescending(es) == SortedDescFrom(es, 1, <<>>)

\* The counter left as it was
KeepCount(counts, label) == counts

\* label_counts[label] += 1
IncrementCount(counts, label) == [counts EXCEPT ![label] = @ + 1]

\* redacted_text[:start] + placeholder + redacted_text[start:]
SubstituteKeepingSpan(t, start, end, placeholder) ==
    PySlice(t, 0, start) \o Fresh(placeholder) \o PySlice(t, start, Len(t))

\* redacted_text[:start] + placeholder + redacted_text[end:]
Substitute(t, start, end, placeholder) ==
    PySlice(t, 0, start) \o Fresh(placeholder) \o PySlice(t, end, Len(t))

\* A dict made anew for the one key
MapOnly(m, key, value) == <<[k |-> key, v |-> value]>>

\* dict[key] = value: a new key goes last, an old key keeps its place
MapSet(m, key, value) ==
    IF \E i \in 1..Len(m) : m[i].k = key
    THEN [i \in 1..Len(m) |-> IF m[i].k = key THEN [k |-> key, v |-> value] ELSE m[i]]
    ELSE Append(m, [k |-> key, v |-> value])

Keys(m) == {m[i].k : i \in 1..Len(m)}

\* entity[key] raises KeyError for a dictionary without the key
HasKey(entity, key) == key \in DOMAIN entity

\* redact, line 60: the sort key e['start'] is taken of every entity
SortKeyRaises(es) == \E i \in 1..Len(es) : ~HasKey(es[i], "start")

\* redact, lines 48-63: filter, sort, fresh counters; a KeyError of the sort
\* key leaves redact without a result
RedactCall ==
    /\ pc = "redact"
    /\ IF SortKeyRaises(EntitiesToProcess(entities, labels_to_redact))
       THEN /\ pc' = "redact_raised"
            /\ UNCHANGED <<redacted_text, placeholder_map, sorted_entities,
                           label_counts, idx, assigned>>
       ELSE /\ redacted_text' = Tag(text)
            /\ placeholder_map' = <<>>
            /\ sorted_entities' =
                   SortByStartDescending(EntitiesToProcess(entities, labels_to_redact))
            /\ label_counts' = [l \in Labels |-> 0]
            /\ idx' = 1
            /\ assigned' = <<>>
            /\ pc' = "redact_loop"
    /\ UNCHANGED <<text, entities, labels_to_redact>>
    /\ UNCHANGED detectVars
    /\ UNCHANGED restoreVars
    /\ UNCHANGED imageVars

\* redact, lines 64-77: one turn of `for entity in sorted_entities`; a
\* KeyError of entity['end'] (line 73) leaves redact without a result
RedactEntity ==
    /\ pc = "redact_loop"
    /\ idx <= Len(sorted_entities)
    /\ LET entity == sorted_entities[idx]
           label == entity.label
           placeholder_id == _generate_placeholder_id(label_counts[label])
           placeholder == Placeholder(label, placeholder_id)
       IN  /\ label_counts' = IncrementCount(label_counts, label)
           /\ IF ~HasKey(entity, "end")
              THEN /\ pc' = "redact_raised"
                   /\ UNCHANGED <<redacted_text, placeholder_map, assigned, idx>>
              ELSE /\ redacted_text' =
                          Substitute(redacted_text, entity.start, entity.end, placeholder)
                   /\ placeholder_map' =
                          MapSet(placeholder_map, placeholder, entity.entity)
                   /\ assigned' = Append(assigned, placeholder)
                   /\ idx' = idx + 1
                   /\ UNCHANGED pc
    /\ UNCHANGED <<text, entities, labels_to_redact, sorted_entities>>
    /\ UNCHANGED detectVars
    /\ UNCHANGED restoreVars
    /\ UNCHANGED imageVars

\* redact, line 82: return redacted_text, placeholder_map
RedactReturn ==
    /\ pc = "redact_loop"
    /\ idx > Len(sorted_entities)
    /\ pc' = "redacted"
    /\ UNCHANGED <<idx, placeholder_map>>
    /\ UNCHANGED textVars
    /\ UNCHANGED detectVars
    /\ UNCHANGED restoreVars
    /\ UNCHANGED imageVars

NoRestore ==
    /\ llm_output = <<>>
    /\ restored_text = <<>>
    /\ restored_log = <<>>
    /\ warned_log = <<>>
    /\ previous = Nothing

NoPipeline ==
    /\ program = None
    /\ gemini_client = Nothing
    /\ sent_prompts = <<>>

NoDetect ==
    /\ nlp = "en_core_web_sm"
    /\ candidates = <<>>
    /\ NoPipeline

NoImage ==
    /\ ocr_reader = None
    /\ enable_object_detection = FALSE
    /\ _face_counter = 0
    /\ _text_counter = 0
    /\ _object_counter = 0
    /\ all_entities = <<>>
    /\ metadata = Nothing
    /\ backend_answers = Nothing
    /\ source_runs = Nothing
    /\ draw_borders = TRUE
    /\ image = None
    /\ redacted_image = Nothing
    /\ raised = None
    /\ redacted_log = <<>>
    /\ skipped_log = <<>>
    /\ failed_log = <<>>
    /\ mapping = <<>>
    /\ restoration_stats = Nothing

NoRedact ==
    /\ text = <<>>
    /\ entities = <<>>
    /\ labels_to_redact = Nothing
    /\ sorted_entities = <<>>
    /\ label_counts = [l \in Labels |-> 0]
    /\ redacted_text = <<>>
    /\ assigned = <<>>

\* A call redact(text, entities) with any document and any entity list over it
InitRedact ==
    /\ pc = "redact"
    /\ text \in BoundedSeq(TextAlphabet, MaxTextLen)
    /\ entities \in BoundedSeq(EntitiesIn(text), MaxEntities)
    /\ labels_to_redact = Nothing
    /\ sorted_entities = <<>>
    /\ idx = 1
    /\ label_counts = [l \in Labels |-> 0]
    /\ redacted_text = <<>>
    /\ placeholder_map = <<>>
    /\ assigned = <<>>
    /\ NoDetect
    /\ NoRestore
    /\ NoImage

NextRedact == RedactCall \/ RedactEntity \/ RedactReturn

SpecRedact == InitRedact /\ [][NextRedact]_vars

\* The lists a caller passes as labels_to_redact: the empty list included
LabelLists == BoundedSeq(Labels, 2)

\* A call redact(text, entities, labels_to_redact) with or without the list
InitRedactLabels ==
    /\ pc = "redact"
    /\ text \in BoundedSeq(TextAlphabet, MaxTextLen - 1)
    /\ entities \in BoundedSeq(EntitiesIn(text), MaxEntities)
    /\ labels_to_redact \in {Nothing} \cup {Some(list) : list \in LabelLists}
    /\ sorted_entities = <<>>
    /\ idx = 1
    /\ label_counts = [l \in Labels |-> 0]
    /\ redacted_text = <<>>
    /\ placeholder_map = <<>>
    /\ assigned = <<>>
    /\ NoDetect
    /\ NoRestore
    /\ NoImage

SpecLabels == InitRedactLabels /\ [][NextRedact]_vars

----------------------------------------------------------------------------
(* PIIDetector (src/redactor/detector.py) *)

\* The sort key of a is at most that of e: (start, -end)
KeyAtMost(a, e) == a.start < e.start \/ (a.start = e.start /\ a.end >= e.end)

\* sorted() is stable: e goes behind every entity whose key is at most its own
RECURSIVE InsertByKey(_, _)
InsertByKey(s, e) ==
    IF s = <<>> THEN <<e>>
    ELSE IF KeyAtMost(Head(s), e)
         THEN <<Head(s)>> \o InsertByKey(Tail(s), e)
         ELSE <<e>> \o s

RECURSIVE SortedByKeyFrom(_, _, _)
SortedByKeyFrom(es, k, acc) ==
    IF k > Len(es) THEN acc ELSE SortedByKeyFrom(es, k + 1, InsertByKey(acc, es[k]))

\* sorted(entities, key=lambda e: (e['start'], -e['end']))
SortByStartThenLongest(es) == SortedByKeyFrom(es, 1, <<>>)

\* Only the containment test of line 65
SkippedIfContained(entity, last_end) == entity.end <= last_end

\* The two `continue` tests of lines 65 and 71
Skipped(entity, last_end) == entity.end <= last_end \/ entity.start < last_end

\* The loop of lines 63-75 from the k-th sorted entity on
RECURSIVE DedupScan(_, _, _, _)
DedupScan(sorted, k, last_end, deduplicated) ==
    IF k > Len(sorted) THEN deduplicated
    ELSE IF Skipped(sorted[k], last_end)
         THEN DedupScan(sorted, k + 1, last_end, deduplicated)
         ELSE DedupScan(sorted, k + 1, sorted[k].end, Append(deduplicated, sorted[k]))

_deduplicate_and_sort_entities(es) ==
    IF es = <<>> THEN <<>> ELSE DedupScan(SortByStartThenLongest(es), 1, -1, <<>>)

\* detect, lines 90-120: nothing without the model, else the de-duplicated
\* candidates of both sources
PIIDetect ==
    /\ pc = "detect"
    /\ entities' = IF nlp = None THEN <<>>
                   ELSE _deduplicate_and_sort_entities(candidates)
    /\ pc' = "detected"
    /\ UNCHANGED <<text, labels_to_redact, sorted_entities, label_counts,
                   redacted_text, assigned, idx, placeholder_map>>
    /\ UNCHANGED detectVars
    /\ UNCHANGED restoreVars
    /\ UNCHANGED imageVars

\* Documents of every length; their characters play no part in de-duplication
PlainTexts == {[i \in 1..n |-> "a"] : n \in 0..MaxTextLen}

\* A call detect(text) whose sources report any candidates: overlapping,
\* nested, duplicate and zero-length spans included
InitDetect ==
    /\ pc = "detect"
    /\ nlp \in {"en_core_web_sm", None}
    /\ NoPipeline
    /\ text \in PlainTexts
    /\ candidates \in BoundedSeq(EntitiesIn(text), MaxCandidates)
    /\ entities = <<>>
    /\ labels_to_redact = Nothing
    /\ sorted_entities = <<>>
    /\ idx = 1
    /\ label_counts = [l \in Labels |-> 0]
    /\ redacted_text = <<>>
    /\ placeholder_map = <<>>
    /\ assigned = <<>>
    /\ NoRestore
    /\ NoImage

NextDetect == PIIDetect

SpecDetect == InitDetect /\ [][NextDetect]_vars

----------------------------------------------------------------------------
(* Restorer.restore (src/redactor/restorer.py) *)

\* restore, lines 51-55: restored_text = llm_output
RestoreCall ==
    /\ pc = "restore"
    /\ restored_text' = Tag(llm_output)
    /\ restored_log' = <<>>
    /\ warned_log' = <<>>
    /\ idx' = 1
    /\ pc' = "restore_loop"
    /\ UNCHANGED <<llm_output, previous, placeholder_map>>
    /\ UNCHANGED detectVars
    /\ UNCHANGED textVars
    /\ UNCHANGED imageVars

\* restore, lines 64-73: one turn of `for placeholder, original_value in
\* placeholder_map.items()`
RestoreEntry ==
    /\ pc = "restore_loop"
    /\ idx <= Len(placeholder_map)
    /\ LET placeholder == placeholder_map[idx].k
           original_value == placeholder_map[idx].v
       IN  IF Contains(restored_text, placeholder)
           THEN /\ restored_text' = Replace(restored_text, placeholder, original_value)
                /\ restored_log' = Append(restored_log, placeholder)
                /\ UNCHANGED warned_log
           ELSE /\ warned_log' = Append(warned_log, placeholder)
                /\ UNCHANGED <<restored_text, restored_log>>
    /\ idx' = idx + 1
    /\ UNCHANGED <<pc, llm_output, previous, placeholder_map>>
    /\ UNCHANGED detectVars
    /\ UNCHANGED textVars
    /\ UNCHANGED imageVars

\* restore, line 78: return restored_text
RestoreReturn ==
    /\ pc = "restore_loop"
    /\ idx > Len(placeholder_map)
    /\ pc' = "restored"
    /\ UNCHANGED <<idx, placeholder_map>>
    /\ UNCHANGED restoreVars
    /\ UNCHANGED detectVars
    /\ UNCHANGED textVars
    /\ UNCHANGED imageVars

\* The caller restores the restored text once more with the same map
RestoreAgain ==
    /\ pc = "restored"
    /\ previous = Nothing
    /\ previous' = Some(Chars(restored_text))
    /\ llm_output' = Chars(restored_text)
    /\ pc' = "restore"
    /\ UNCHANGED <<idx, placeholder_map, restored_text, restored_log, warned_log>>
    /\ UNCHANGED detectVars
    /\ UNCHANGED textVars
    /\ UNCHANGED imageVars

\* Pieces an inference response is made of: plain text, placeholders, and the
\* two halves of a bracketed token
OutputAtoms ==
    {<<"x">>, Placeholder(<<"P">>, <<"A">>), Placeholder(<<"P">>, <<"B">>),
     <<"[", "P">>, <<"B", "]">>}

RECURSIVE Flatten(_)
Flatten(ss) == IF ss = <<>> THEN <<>> ELSE Head(ss) \o Flatten(Tail(ss))

Outputs == {Flatten(ss) : ss \in BoundedSeq(OutputAtoms, MaxOutAtoms)}

\* Keys of a placeholder map: placeholders as Redactor.redact forms them
MapKeys == {Placeholder(<<"P">>, <<"A">>), Placeholder(<<"P">>, <<"B">>),
            Placeholder(<<"P", "_", "A">>, <<"A">>)}

\* Original values: document text, which may hold "_" or a bracketed token
MapValues == {<<>>, <<"y">>, <<"_">>, Placeholder(<<"P">>, <<"B">>)}

MapEntries == {[k |-> key, v |-> value] : key \in MapKeys, value \in MapValues}

Maps == {m \in BoundedSeq(MapEntries, MaxMapEntries) :
            \A i, j \in 1..Len(m) : i /= j => m[i].k /= m[j].k}

\* A call restore(llm_output, placeholder_map) with any output and any map
InitRestore ==
    /\ pc = "restore"
    /\ llm_output \in Outputs
    /\ placeholder_map \in Maps
    /\ restored_text = <<>>
    /\ restored_log = <<>>
    /\ warned_log = <<>>
    /\ previous = Nothing
    /\ idx = 1
    /\ NoDetect
    /\ NoRedact
    /\ NoImage

NextRestore == RestoreCall \/ RestoreEntry \/ RestoreReturn \/ RestoreAgain

SpecRestore == InitRestore /\ [][NextRestore]_vars

----------------------------------------------------------------------------
(* Round trip: restore(redact(T, E)) as in run_demo_pipeline (src/demo.py) *)

\* Documents that quote a placeholder literally
LiteralTexts ==
    {Placeholder(<<"P">>, _generate_placeholder_id(n)) \o s :
        n \in 0..1, s \in BoundedSeq(TextAlphabet, 1)}

\* demo.py, lines 69-89: the redacted text comes back as it was sent and is
\* restored with the map redact returned
RestoreRedacted ==
    /\ pc = "redacted"
    /\ llm_output' = Chars(redacted_text)
    /\ pc' = "restore"
    /\ UNCHANGED <<idx, placeholder_map, restored_text, restored_log, warned_log,
                   previous>>
    /\ UNCHANGED detectVars
    /\ UNCHANGED textVars
    /\ UNCHANGED imageVars

InitRoundTrip ==
    /\ pc = "redact"
    /\ text \in BoundedSeq(TextAlphabet, MaxTextLen) \cup LiteralTexts
    /\ entities \in BoundedSeq(EntitiesIn(text), MaxEntities)
    /\ labels_to_redact = Nothing
    /\ sorted_entities = <<>>
    /\ idx = 1
    /\ label_counts = [l \in Labels |-> 0]
    /\ redacted_text = <<>>
    /\ placeholder_map = <<>>
    /\ assigned = <<>>
    /\ NoDetect
    /\ NoRestore
    /\ NoImage

NextRoundTrip ==
    \/ RedactCall \/ RedactEntity \/ RedactReturn
    \/ RestoreRedacted
    \/ RestoreCall \/ RestoreEntry \/ RestoreReturn

SpecRoundTrip == InitRoundTrip /\ [][NextRoundTrip]_vars

----------------------------------------------------------------------------
(* ImageDetector (src/redactor/image/detector.py) *)

\* The characters chr(64) .. chr(93)
AsciiFrom64 ==
    <<"@", "A", "B", "C", "D", "E", "F", "G", "H", "I", "J", "K", "L", "M", "N", "O",
      "P", "Q", "R", "S", "T", "U", "V", "W", "X", "Y", "Z", "[", "\\", "]">>

\* Python chr(code), for 64 <= code <= 93
Chr(code) == AsciiFrom64[code - 63]

\* f'[FACE_{chr(64 + counter)}]', f'[TEXT_{...}]', f'[OBJECT_{...}]'
ImagePlaceholder(prefix, counter) ==
    <<"[">> \o prefix \o <<"_", Chr(64 + counter), "]">>

FACE == <<"F", "A", "C", "E">>

TEXT == <<"T", "E", "X", "T">>

OBJECT == <<"O", "B", "J", "E", "C", "T">>

\* detect_text, line 136: the default confidence_threshold 0.5, in hundredths
confidence_threshold == 50

\* detect_objects, line 212: `if conf < 0.5`, in hundredths
OBJECT_CONFIDENCE == 50

\* detect_faces, line 119: confidence=0.99, in hundredths
FACE_CONFIDENCE == 99

\* detect_objects, lines 199-202
RELEVANT_OBJECTS ==
    [class_name \in {"car", "motorcycle", "truck", "bus", "laptop", "cell phone", "tv"} |->
        IF class_name \in {"car", "motorcycle", "truck", "bus"} THEN "VEHICLE" ELSE "DEVICE"]

\* Entity(type=..., placeholder=..., bbox=..., confidence=..., modality='image',
\* original_text=..., metadata=...)
Entity(type, placeholder, bbox, confidence, original_text, meta) ==
    [type |-> type, placeholder |-> placeholder, bbox |-> bbox,
     confidence |-> confidence, modality |-> "image",
     original_text |-> original_text, metadata |-> meta]

\* What a detection backend answers: it raises, or returns its results
Raises == [raises |-> TRUE, results |-> <<>>]

Returns(results) == [raises |-> FALSE, results |-> results]

\* detect_faces, lines 106-134: one entity per face location (top, right,
\* bottom, left); any exception gives []
detect_faces(face_locations, counter) ==
    IF face_locations.raises THEN <<>>
    ELSE [i \in 1..Len(face_locations.results) |->
            LET loc == face_locations.results[i]
            IN  Entity("FACE", ImagePlaceholder(FACE, counter + i),
                       Some(<<loc[4], loc[1], loc[2], loc[3]>>), FACE_CONFIDENCE,
                       Nothing, "face_model")]

SetMin(S) == CHOOSE x \in S : \A y \in S : x <= y

SetMax(S) == CHOOSE x \in S : \A y \in S : x >= y

\* detect_text, lines 159-161: the rectangle around the polygon
normalized_bbox(bbox_polygon) ==
    LET xs == {bbox_polygon[i][1] : i \in 1..Len(bbox_polygon)}
        ys == {bbox_polygon[i][2] : i \in 1..Len(bbox_polygon)}
    IN  <<SetMin(xs), SetMin(ys), SetMax(xs), SetMax(ys)>>

\* detect_text, lines 155-177: the loop over ocr_results from result k on,
\* `counter` being self._text_counter
RECURSIVE TextLoop(_, _, _)
TextLoop(ocr_results, k, counter) ==
    IF k > Len(ocr_results) THEN <<>>
    ELSE IF ocr_results[k].confidence < confidence_threshold
         THEN TextLoop(ocr_results, k + 1, counter)
    ELSE <<Entity("OCR_TEXT", ImagePlaceholder(TEXT, counter + 1),
                  Some(normalized_bbox(ocr_results[k].bbox_polygon)),
                  ocr_results[k].confidence, Some(ocr_results[k].text), "easyocr")>>
         \o TextLoop(ocr_results, k + 1, counter + 1)

\* detect_text, lines 146-183
detect_text(reader, ocr_results, counter) ==
    IF reader = None THEN <<>>
    ELSE IF ocr_results.raises THEN <<>>
    ELSE TextLoop(ocr_results.results, 1, counter)

\* detect_objects, lines 207-229: the loop over yolo_results[0].boxes
RECURSIVE ObjectLoop(_, _, _)
ObjectLoop(boxes, k, counter) ==
    IF k > Len(boxes) THEN <<>>
    ELSE IF boxes[k].class_name \notin DOMAIN RELEVANT_OBJECTS
         THEN ObjectLoop(boxes, k + 1, counter)
    ELSE IF boxes[k].conf < OBJECT_CONFIDENCE
         THEN ObjectLoop(boxes, k + 1, counter)
    ELSE <<Entity(RELEVANT_OBJECTS[boxes[k].class_name],
                  ImagePlaceholder(OBJECT, counter + 1),
                  Some(boxes[k].xyxy), boxes[k].conf, Nothing, boxes[k].class_name)>>
         \o ObjectLoop(boxes, k + 1, counter + 1)

\* detect_objects, lines 195-236
detect_objects(enabled, yolo_results, counter) ==
    IF ~enabled THEN <<>>
    ELSE IF yolo_results.raises THEN <<>>
    ELSE ObjectLoop(yolo_results.results, 1, counter)

EntityTypes == {"FACE", "OCR_TEXT", "VEHICLE", "DEVICE"}

\* detect, lines 269-272: entities_by_type (a type that is no key counts 0)
entities_by_type(es) ==
    [type \in EntityTypes |-> Cardinality({i \in 1..Len(es) : es[i].type = type})]

\* detect, lines 274-284
DetectionMetadata(es, reader, enabled) ==
    [total_entities |-> Len(es),
     entities_by_type |-> entities_by_type(es),
     model_info |-> [face_detection |-> "face_model",
                     ocr |-> IF reader /= None THEN "easyocr" ELSE "disabled",
                     object_detection |-> IF enabled THEN "yolov8n" ELSE "disabled"]]

\* Face locations (top, right, bottom, left): a large face and a small one
FaceLocations == {<<0, 12, 12, 0>>, <<2, 6, 6, 2>>}

\* OCR results (bbox_polygon, text, confidence)
OcrResults ==
    {[bbox_polygon |-> <<<<1, 1>>, <<9, 1>>, <<9, 4>>, <<1, 4>>>>,
      text |-> <<"t">>, confidence |-> c] : c \in {40, 50}}

\* YOLO boxes (class name, conf, xyxy)
YoloBoxes ==
    {[class_name |-> cn, conf |-> c, xyxy |-> <<3, 3, 15, 15>>] :
        cn \in {"car", "laptop", "person"}, c \in {40, 90}}

BackendAnswers(S) == {Raises} \cup {Returns(r) : r \in BoundedSeq(S, MaxDetections)}

\* A detector that starts a run from the counter the run before left
CarriedCounter(counter) == counter

\* detect, lines 257-259: self._face_counter = 0, and so for the other two
ResetCounter(counter) == 0

\* detect, lines 238-290: one run over an image, given what the three
\* backends answer
detect(face_locations, ocr_results, yolo_results) ==
    /\ LET faces == detect_faces(face_locations, ResetCounter(_face_counter))
           texts == detect_text(ocr_reader, ocr_results, ResetCounter(_text_counter))
           objects == detect_objects(enable_object_detection, yolo_results,
                                     ResetCounter(_object_counter))
       IN  /\ _face_counter' = ResetCounter(_face_counter) + Len(faces)
           /\ _text_counter' = ResetCounter(_text_counter) + Len(texts)
           /\ _object_counter' = ResetCounter(_object_counter) + Len(objects)
           /\ all_entities' = faces \o texts \o objects
           /\ metadata' = Some(DetectionMetadata(faces \o texts \o objects,
                                                 ocr_reader, enable_object_detection))
    /\ UNCHANGED <<backend_answers, source_runs>>
    /\ pc' = "image_detected"
    /\ UNCHANGED <<ocr_reader, enable_object_detection, draw_borders, image, redacted_image,
                   raised, redacted_log, skipped_log, failed_log, mapping,
                   restoration_stats>>
    /\ UNCHANGED <<idx, placeholder_map>>
    /\ UNCHANGED detectVars
    /\ UNCHANGED textVars
    /\ UNCHANGED restoreVars

\* A first run of detect on a new detector; the three backends answer with at
\* most MaxDetections raw detections in all
ImageDetect ==
    /\ pc = "image_detect"
    /\ \E face_locations \in BackendAnswers(FaceLocations),
          ocr_results \in BackendAnswers(OcrResults),
          yolo_results \in BackendAnswers(YoloBoxes) :
          /\ Len(face_locations.results) + Len(ocr_results.results)
                + Len(yolo_results.results) <= MaxDetections
          /\ detect(face_locations, ocr_results, yolo_results)

----------------------------------------------------------------------------
(* ImageRedactor (src/redactor/image/redactor.py) *)

\* __init__, line 41: the default border_width
border_width == 2

\* _draw_label_text, line 109: boxes narrower or lower than this get no label
MIN_LABEL_SIZE == 10

\* One ImageDraw call on the copy of the image
DrawOp(op, bbox, fill, label) == [op |-> op, bbox |-> bbox, fill |-> fill, text |-> label]

\* The border of lines 85-91 without the blackout of line 94
BorderAlone(borders, bbox) ==
    IF borders
    THEN <<DrawOp("rectangle",
                  <<bbox[1] - border_width, bbox[2] - border_width,
                    bbox[3] + border_width, bbox[4] + border_width>>, "red", <<>>)>>
    ELSE <<>>

\* _draw_blackout_box, lines 82-94
_draw_blackout_box(borders, bbox) ==
    (IF borders
     THEN <<DrawOp("rectangle",
                   <<bbox[1] - border_width, bbox[2] - border_width,
                     bbox[3] + border_width, bbox[4] + border_width>>, "red", <<>>)>>
     ELSE <<>>)
    \o <<DrawOp("rectangle", bbox, "black", <<>>)>>

\* The label drawn whatever the size of the box
LabelAlways(bbox, label) == <<DrawOp("text", bbox, "white", label)>>

\* _draw_label_text, lines 108-120
_draw_label_text(bbox, label) ==
    IF bbox[3] - bbox[1] < MIN_LABEL_SIZE \/ bbox[4] - bbox[2] < MIN_LABEL_SIZE
    THEN <<>>
    ELSE <<DrawOp("text", bbox, "white", label)>>

\* The pixels of the image the caller has (tests/test_image_redactor.py,
\* line 7), on a smaller scale
Canvas == (0..12) \X (0..12)

\* The pixels one ImageDraw call writes: rectangle fills the box with both
\* corners included (line 94; an ImageDraw that accepts corners out of order
\* fills the box between them), text writes around the centre of the box
\* (lines 116-120), of which the centre pixel is kept here
Covers(op, x, y) ==
    IF op.op = "rectangle"
    THEN /\ Min(op.bbox[1], op.bbox[3]) <= x /\ x <= Max(op.bbox[1], op.bbox[3])
         /\ Min(op.bbox[2], op.bbox[4]) <= y /\ y <= Max(op.bbox[2], op.bbox[4])
    ELSE /\ x = (op.bbox[1] + op.bbox[3]) \div 2
         /\ y = (op.bbox[2] + op.bbox[4]) \div 2

\* The colour of pixel (x, y) after the calls: that of the last call that
\* wrote it, or what the opened image shows there
PixelColour(ops, x, y) ==
    LET writers == {k \in 1..Len(ops) : Covers(ops[k], x, y)}
    IN  IF writers = {} THEN "original" ELSE ops[SetMax(writers)].fill

\* redact, lines 177-186: the record stored under the placeholder
MappingRecord(entity) ==
    [placeholder |-> entity.placeholder, original_type |-> entity.type,
     bbox |-> entity.bbox[1], confidence |-> entity.confidence,
     modality |-> "image", original_text |-> entity.original_text,
     metadata |-> entity.metadata]

\* The modes of the images a caller has: RGB, RGB with alpha, greyscale
ImageModes == {"RGB", "RGBA", "L"}

\* Image.open(image_path), line 145: the image of the file, or the exception
\* for a file that is missing or is no image
OpenResults ==
    {[raises |-> e, mode |-> None] : e \in {"FileNotFoundError", "IOError"}}
        \cup {[raises |-> None, mode |-> m] : m \in ImageModes}

\* A copy left in the mode of the image
CopyInMode(mode) == [mode |-> mode, ops |-> <<>>]

\* image.copy().convert("RGB"), line 147: a copy in mode RGB, nothing drawn
CopyAsRGB(mode) == [mode |-> "RGB", ops |-> <<>>]

\* A handler that logs the exception and lets redact go on
Swallow(error) == None

\* redact, lines 148-153: `raise` in both handlers hands the exception on
Reraise(error) == error

\* redact, lines 144-160: the image is opened and copied; an image that
\* cannot be opened raises to the caller; an empty list returns at once
ImageRedactCall ==
    /\ pc = "image_detected"
    /\ \E opened \in OpenResults :
          IF opened.raises /= None /\ Reraise(opened.raises) /= None
          THEN /\ raised' = Reraise(opened.raises)
               /\ image' = None
               /\ redacted_image' = Nothing
               /\ pc' = "image_raised"
          ELSE /\ raised' = None
               /\ image' = opened.mode
               /\ redacted_image' = Some(CopyAsRGB(opened.mode))
               /\ pc' = IF all_entities = <<>> THEN "image_redacted" ELSE "image_redact_loop"
    /\ mapping' = <<>>
    /\ redacted_log' = <<>>
    /\ skipped_log' = <<>>
    /\ failed_log' = <<>>
    /\ idx' = 1
    /\ UNCHANGED <<draw_borders, restoration_stats>>
    /\ UNCHANGED detectorVars
    /\ UNCHANGED placeholder_map
    /\ UNCHANGED detectVars
    /\ UNCHANGED textVars
    /\ UNCHANGED restoreVars

\* A box whose corners are in order.  ImageDraw.rectangle draws such a box in
\* every Pillow; a box with x2 < x1 or y2 < y1 it rejects with a ValueError in
\* the current ones
Ordered(bbox) == bbox[1] <= bbox[3] /\ bbox[2] <= bbox[4]

\* _draw_blackout_box, lines 83-94, when its draw.rectangle(bbox) raises: the
\* border of lines 85-91 is on the image if it was asked for and accepted
BorderBeforeRaise(borders, bbox) ==
    LET bordered_bbox == <<bbox[1] - border_width, bbox[2] - border_width,
                           bbox[3] + border_width, bbox[4] + border_width>>
    IN  IF borders /\ Ordered(bordered_bbox)
        THEN <<DrawOp("rectangle", bordered_bbox, "red", <<>>)>>
        ELSE <<>>

\* The calls of the try block of lines 169-187 that can raise while the entity
\* is drawn, "none" standing for a turn without an exception
RaisingCalls(bbox) ==
    IF Ordered(bbox) THEN {"none"} ELSE {"none", "_draw_blackout_box"}

\* redact, lines 162-193: one turn of `for entity in entities`; a drawing call
\* may raise, which the handler of lines 189-193 logs
ImageRedactEntity ==
    /\ pc = "image_redact_loop"
    /\ idx <= Len(all_entities)
    /\ LET entity == all_entities[idx]
       IN  IF entity.bbox = Nothing
           THEN /\ skipped_log' = Append(skipped_log, entity.placeholder)
                /\ UNCHANGED <<redacted_image, mapping, redacted_log, failed_log>>
           ELSE \E raising \in RaisingCalls(entity.bbox[1]) :
                  /\ redacted_image' =
                        Some([redacted_image[1] EXCEPT !.ops =
                                @ \o (IF raising = "none"
                                      THEN _draw_blackout_box(draw_borders, entity.bbox[1])
                                           \o _draw_label_text(entity.bbox[1],
                                                               entity.placeholder)
                                      ELSE BorderBeforeRaise(draw_borders, entity.bbox[1]))])
                  /\ mapping' = IF raising = "none"
                                THEN MapSet(mapping, entity.placeholder, MappingRecord(entity))
                                ELSE mapping
                  /\ redacted_log' = IF raising = "none"
                                     THEN Append(redacted_log, entity.placeholder)
                                     ELSE redacted_log
                  /\ failed_log' = IF raising = "none"
                                   THEN failed_log
                                   ELSE Append(failed_log, entity.placeholder)
                  /\ UNCHANGED skipped_log
    /\ idx' = idx + 1
    /\ UNCHANGED <<pc, raised, draw_borders, image, restoration_stats>>
    /\ UNCHANGED detectorVars
    /\ UNCHANGED placeholder_map
    /\ UNCHANGED detectVars
    /\ UNCHANGED textVars
    /\ UNCHANGED restoreVars

\* redact, lines 195-196: return redacted_image, mapping
ImageRedactReturn ==
    /\ pc = "image_redact_loop"
    /\ idx > Len(all_entities)
    /\ pc' = "image_redacted"
    /\ UNCHANGED idx
    /\ UNCHANGED imageVars
    /\ UNCHANGED placeholder_map
    /\ UNCHANGED detectVars
    /\ UNCHANGED textVars
    /\ UNCHANGED restoreVars

\* ImageDetector() and ImageRedactor() as constructed: the OCR reader may have
\* failed to initialise, object detection may be off, borders may be off
InitImage ==
    /\ pc = "image_detect"
    /\ ocr_reader \in {"easyocr", None}
    /\ enable_object_detection \in BOOLEAN
    /\ _face_counter = 0
    /\ _text_counter = 0
    /\ _object_counter = 0
    /\ all_entities = <<>>
    /\ metadata = Nothing
    /\ backend_answers = Nothing
    /\ source_runs = Nothing
    /\ draw_borders \in BOOLEAN
    /\ image = None
    /\ redacted_image = Nothing
    /\ raised = None
    /\ redacted_log = <<>>
    /\ skipped_log = <<>>
    /\ failed_log = <<>>
    /\ mapping = <<>>
    /\ restoration_stats = Nothing
    /\ idx = 1
    /\ placeholder_map = <<>>
    /\ NoDetect
    /\ NoRedact
    /\ NoRestore

NextImage == ImageDetect \/ ImageRedactCall \/ ImageRedactEntity \/ ImageRedactReturn

SpecImage == InitImage /\ [][NextImage]_vars

\* The boxes a caller puts on its entities: none, a small one, a large one, and
\* one whose corners are out of order
CallerBoxes == {Nothing, Some(<<2, 2, 6, 6>>), Some(<<0, 0, 12, 12>>), Some(<<6, 6, 2, 2>>)}

\* Entities made by the caller (tests/test_image_redactor.py, lines 11-16)
CallerEntities ==
    {Entity("FACE", ImagePlaceholder(FACE, n), bbox, FACE_CONFIDENCE, Nothing, "mock") :
        n \in 1..2, bbox \in CallerBoxes}
    \cup {Entity("OCR_TEXT", ImagePlaceholder(TEXT, 1), bbox, 92, Some(<<"t">>), "mock") :
            bbox \in CallerBoxes}

\* A call redact(image_path, entities) with a list of the caller's own
\* (line 20), every entity under a placeholder of its own
InitImageRedact ==
    /\ pc = "image_detected"
    /\ ocr_reader = None
    /\ enable_object_detection = FALSE
    /\ _face_counter = 0
    /\ _text_counter = 0
    /\ _object_counter = 0
    /\ all_entities \in {es \in BoundedSeq(CallerEntities, MaxEntities) :
                            \A i, j \in 1..Len(es) :
                                es[i].placeholder = es[j].placeholder => i = j}
    /\ metadata = Nothing
    /\ backend_answers = Nothing
    /\ source_runs = Nothing
    /\ draw_borders \in BOOLEAN
    /\ image = None
    /\ redacted_image = Nothing
    /\ raised = None
    /\ redacted_log = <<>>
    /\ skipped_log = <<>>
    /\ failed_log = <<>>
    /\ mapping = <<>>
    /\ restoration_stats = Nothing
    /\ idx = 1
    /\ placeholder_map = <<>>
    /\ NoDetect
    /\ NoRedact
    /\ NoRestore

NextImageRedact == ImageRedactCall \/ ImageRedactEntity \/ ImageRedactReturn

SpecImageRedact == InitImageRedact /\ [][NextImageRedact]_vars

----------------------------------------------------------------------------
(* Entity lists of the caller's own, with entities that lack their location *)

\* Entity dictionaries over document T that lack 'start' and 'end', or 'end'
EntitiesWithoutSpan(T) ==
    {[entity |-> PySlice(T, se[1], se[2]), label |-> l] :
        l \in Labels, se \in Spans(Len(T))}
    \cup {[entity |-> PySlice(T, se[1], se[2]), label |-> l, start |-> se[1]] :
            l \in Labels, se \in Spans(Len(T))}

\* A call redact(text, entities) in which entities may lack their span
InitRedactAny ==
    /\ pc = "redact"
    /\ text \in BoundedSeq(TextAlphabet, MaxTextLen - 1)
    /\ entities \in BoundedSeq(EntitiesIn(text) \cup EntitiesWithoutSpan(text), MaxEntities)
    /\ labels_to_redact = Nothing
    /\ sorted_entities = <<>>
    /\ idx = 1
    /\ label_counts = [l \in Labels |-> 0]
    /\ redacted_text = <<>>
    /\ placeholder_map = <<>>
    /\ assigned = <<>>
    /\ NoDetect
    /\ NoRestore
    /\ NoImage

InitAnyEntities == InitRedactAny \/ InitImageRedact

NextAnyEntities == NextRedact \/ NextImageRedact

SpecAnyEntities == InitAnyEntities /\ [][NextAnyEntities]_vars

----------------------------------------------------------------------------
(* Documents that hold many entities of one type *)

\* A document of n characters
RunText(n) == [i \in 1..n |-> "a"]

\* Its entities: every character is one entity of the given label, in
\* ascending start order
RunEntities(n, label) == [i \in 1..n |-> EntityAt(RunText(n), label, i - 1, i)]

\* A call redact(text, entities) on such a document
InitLongRedact ==
    /\ pc = "redact"
    /\ \E n \in 0..MaxSameType, label \in Labels :
          /\ text = RunText(n)
          /\ entities = RunEntities(n, label)
    /\ labels_to_redact = Nothing
    /\ sorted_entities = <<>>
    /\ idx = 1
    /\ label_counts = [l \in Labels |-> 0]
    /\ redacted_text = <<>>
    /\ placeholder_map = <<>>
    /\ assigned = <<>>
    /\ NoDetect
    /\ NoRestore
    /\ NoImage

\* n detections that pass every filter, all from one backend
ManyAnswers(n, detection) == Returns([i \in 1..n |-> detection])

\* A run of detect on an image in which one backend finds up to MaxSameType
\* faces, text regions or cars
ImageDetectMany ==
    /\ pc = "image_detect"
    /\ \E n \in 0..MaxSameType, source \in {"face_recognition", "easyocr", "yolo"} :
          detect(IF source = "face_recognition"
                 THEN ManyAnswers(n, <<0, 12, 12, 0>>) ELSE Returns(<<>>),
                 IF source = "easyocr"
                 THEN ManyAnswers(n, [bbox_polygon |-> <<<<1, 1>>, <<9, 1>>, <<9, 4>>, <<1, 4>>>>,
                                      text |-> <<"t">>, confidence |-> 90])
                 ELSE Returns(<<>>),
                 IF source = "yolo"
                 THEN ManyAnswers(n, [class_name |-> "car", conf |-> 90,
                                      xyxy |-> <<3, 3, 15, 15>>])
                 ELSE Returns(<<>>))

InitLongRun == InitLongRedact \/ InitImage

NextLongRun == NextRedact \/ ImageDetectMany

SpecLongRun == InitLongRun /\ [][NextLongRun]_vars

----------------------------------------------------------------------------
(* One Redactor and one ImageDetector used for several documents *)

\* Short documents
ShortTexts == BoundedSeq(TextAlphabet, 1)

\* The caller passes another document to the same Redactor; what the call
\* before left behind is still there
RedactAgain ==
    /\ pc = "redacted"
    /\ \E T \in ShortTexts :
          /\ text' = T
          /\ entities' \in BoundedSeq(EntitiesIn(T), MaxEntities)
    /\ pc' = "redact"
    /\ UNCHANGED <<labels_to_redact, sorted_entities, label_counts, redacted_text,
                   assigned, idx, placeholder_map>>
    /\ UNCHANGED detectVars
    /\ UNCHANGED restoreVars
    /\ UNCHANGED imageVars

\* The caller passes another image to the same ImageDetector, whose counters
\* stand where the run before left them
ImageDetectAgain ==
    /\ pc = "image_redacted"
    /\ \E face_locations \in BackendAnswers({<<0, 12, 12, 0>>}),
          ocr_results \in BackendAnswers({r \in OcrResults : r.confidence = 50}),
          yolo_results \in BackendAnswers({b \in YoloBoxes :
                                              b.class_name = "car" /\ b.conf = 90}) :
          /\ Len(face_locations.results) + Len(ocr_results.results)
                + Len(yolo_results.results) <= MaxDetections
          /\ detect(face_locations, ocr_results, yolo_results)

InitRuns ==
    \/ /\ pc = "redact"
       /\ text \in ShortTexts
       /\ entities \in BoundedSeq(EntitiesIn(text), MaxEntities)
       /\ labels_to_redact = Nothing
       /\ sorted_entities = <<>>
       /\ idx = 1
       /\ label_counts = [l \in Labels |-> 0]
       /\ redacted_text = <<>>
       /\ placeholder_map = <<>>
       /\ assigned = <<>>
       /\ NoDetect
       /\ NoRestore
       /\ NoImage
    \/ InitImage

NextRuns == NextRedact \/ RedactAgain \/ NextImage \/ ImageDetectAgain

SpecRuns == InitRuns /\ [][NextRuns]_vars

----------------------------------------------------------------------------
(* ImageDetector.detect followed source by source *)

Sources == {"faces", "texts", "objects"}

\* detect, lines 262-264: detect_faces, then detect_text, then detect_objects
CallOrder == <<"faces", "texts", "objects">>

\* A source that has not been called, and one that has returned its results
NotCalled == [k |-> 1, results |-> <<>>, returned |-> FALSE]

\* One counter shared by the three sources
OneCounter(source) == "faces"

\* detect_faces counts in _face_counter (line 111), detect_text in
\* _text_counter (line 164), detect_objects in _object_counter (line 216)
CounterOf(source) == source

CounterValue(counter) ==
    CASE counter = "faces" -> _face_counter
      [] counter = "texts" -> _text_counter
      [] counter = "objects" -> _object_counter

\* The source is switched off: no OCR reader (line 147), no object detection
\* (line 195)
Unavailable(source) ==
    \/ source = "texts" /\ ocr_reader = None
    \/ source = "objects" /\ ~enable_object_detection

\* One turn of the loop of a source over what its backend returned: lines
\* 110-124, 155-176, 206-229
LoopTurn(source, item, counter) ==
    CASE source = "faces" -> detect_faces(Returns(<<item>>), counter)
      [] source = "texts" -> TextLoop(<<item>>, 1, counter)
      [] source = "objects" -> ObjectLoop(<<item>>, 1, counter)

\* detect, lines 253-259: the counters are reset before the sources run
DetectStart ==
    /\ pc = "image_detect"
    /\ backend_answers /= Nothing
    /\ _face_counter' = ResetCounter(_face_counter)
    /\ _text_counter' = ResetCounter(_text_counter)
    /\ _object_counter' = ResetCounter(_object_counter)
    /\ source_runs' = Some([source \in Sources |-> NotCalled])
    /\ pc' = "image_sources"
    /\ UNCHANGED <<ocr_reader, enable_object_detection, all_entities, metadata,
                   backend_answers, draw_borders, image, redacted_image, raised,
                   redacted_log, skipped_log, failed_log, mapping, restoration_stats>>
    /\ UNCHANGED <<idx, placeholder_map>>
    /\ UNCHANGED detectVars
    /\ UNCHANGED textVars
    /\ UNCHANGED restoreVars

\* One step of one source: it returns [] when it is switched off or its
\* backend raises (lines 129-134, 147-149, 181-183, 195-196, 234-236), takes
\* the next thing the backend returned, or returns its results
SourceStep(source) ==
    /\ pc = "image_sources"
    /\ ~source_runs[1][source].returned
    /\ LET run == source_runs[1][source]
           answer == backend_answers[1][source]
           counter == CounterOf(source)
           found == IF Unavailable(source) \/ answer.raises
                       \/ run.k > Len(answer.results)
                    THEN <<>>
                    ELSE LoopTurn(source, answer.results[run.k], CounterValue(counter))
       IN  /\ source_runs' =
                  Some([source_runs[1] EXCEPT ![source] =
                          IF Unavailable(source) \/ answer.raises
                          THEN [run EXCEPT !.results = <<>>, !.returned = TRUE]
                          ELSE IF run.k > Len(answer.results)
                               THEN [run EXCEPT !.returned = TRUE]
                               ELSE [run EXCEPT !.k = @ + 1, !.results = @ \o found]])
           /\ _face_counter' = _face_counter + (IF counter = "faces" THEN Len(found) ELSE 0)
           /\ _text_counter' = _text_counter + (IF counter = "texts" THEN Len(found) ELSE 0)
           /\ _object_counter' =
                  _object_counter + (IF counter = "objects" THEN Len(found) ELSE 0)
    /\ UNCHANGED <<pc, ocr_reader, enable_object_detection, all_entities, metadata,
                   backend_answers, draw_borders, image, redacted_image, raised,
                   redacted_log, skipped_log, failed_log, mapping, restoration_stats>>
    /\ UNCHANGED <<idx, placeholder_map>>
    /\ UNCHANGED detectVars
    /\ UNCHANGED textVars
    /\ UNCHANGED restoreVars

\* The sources before this one in detect have returned
EarlierReturned(source) ==
    \A i, j \in 1..Len(CallOrder) :
        (i < j /\ CallOrder[j] = source) => source_runs[1][CallOrder[i]].returned

\* detect, lines 262-264: the sources run one after the other
SourceStepInOrder ==
    /\ pc = "image_sources"
    /\ \E source \in Sources : EarlierReturned(source) /\ SourceStep(source)

\* The sources as threads of their own: any source may take the next step
SourceStepAnyOrder == \E source \in Sources : SourceStep(source)

\* detect, lines 266-290: all_entities = faces + texts + objects, and the
\* metadata
DetectMerge ==
    /\ pc = "image_sources"
    /\ \A source \in Sources : source_runs[1][source].returned
    /\ LET merged == source_runs[1]["faces"].results \o source_runs[1]["texts"].results
                        \o source_runs[1]["objects"].results
       IN  /\ all_entities' = merged
           /\ metadata' = Some(DetectionMetadata(merged, ocr_reader, enable_object_detection))
    /\ pc' = "image_detected"
    /\ UNCHANGED <<ocr_reader, enable_object_detection, _face_counter, _text_counter,
                   _object_counter, backend_answers, source_runs, draw_borders, image,
                   redacted_image, raised, redacted_log, skipped_log, failed_log,
                   mapping, restoration_stats>>
    /\ UNCHANGED <<idx, placeholder_map>>
    /\ UNCHANGED detectVars
    /\ UNCHANGED textVars
    /\ UNCHANGED restoreVars

\* A new detector before detect(image_path), with what the backends are going
\* to answer: at most MaxDetections raw detections in all
InitSources ==
    /\ pc = "image_detect"
    /\ ocr_reader \in {"easyocr", None}
    /\ enable_object_detection \in BOOLEAN
    /\ _face_counter = 0
    /\ _text_counter = 0
    /\ _object_counter = 0
    /\ all_entities = <<>>
    /\ metadata = Nothing
    /\ backend_answers \in
          {Some([faces |-> f, texts |-> t, objects |-> o]) :
              f \in BackendAnswers(FaceLocations), t \in BackendAnswers(OcrResults),
              o \in BackendAnswers(YoloBoxes)}
    /\ Len(backend_answers[1].faces.results) + Len(backend_answers[1].texts.results)
          + Len(backend_answers[1].objects.results) <= MaxDetections
    /\ source_runs = Nothing
    /\ draw_borders = TRUE
    /\ image = None
    /\ redacted_image = Nothing
    /\ raised = None
    /\ redacted_log = <<>>
    /\ skipped_log = <<>>
    /\ failed_log = <<>>
    /\ mapping = <<>>
    /\ restoration_stats = Nothing
    /\ idx = 1
    /\ placeholder_map = <<>>
    /\ NoDetect
    /\ NoRedact
    /\ NoRestore

\* The label of the regex source (_find_emails, line 41)
EMAIL == <<"E">>

\* _find_emails, lines 37-45: the candidates of the regex source
regex_emails(cands) == SelectSeq(cands, LAMBDA e : e.label = EMAIL)

\* A call detect(text) of a PIIDetector with or without its spaCy model
\* (__init__, lines 28-33); without it only the regex source has candidates
InitDetectSources ==
    /\ pc = "detect"
    /\ nlp \in {"en_core_web_sm", None}
    /\ NoPipeline
    /\ text \in PlainTexts
    /\ candidates \in BoundedSeq(EntitiesIn(text)
                                    \cup {EntityAt(text, EMAIL, se[1], se[2]) :
                                            se \in Spans(Len(text))}, MaxCandidates - 1)
    /\ nlp = None => regex_emails(candidates) = candidates
    /\ entities = <<>>
    /\ labels_to_redact = Nothing
    /\ sorted_entities = <<>>
    /\ idx = 1
    /\ label_counts = [l \in Labels |-> 0]
    /\ redacted_text = <<>>
    /\ placeholder_map = <<>>
    /\ assigned = <<>>
    /\ NoRestore
    /\ NoImage

InitAnySources == InitSources \/ InitDetectSources

NextSources == DetectStart \/ SourceStepInOrder \/ DetectMerge \/ PIIDetect

SpecSources == InitAnySources /\ [][NextSources]_vars

NextParallelSources == DetectStart \/ SourceStepAnyOrder \/ DetectMerge

SpecParallelSources == InitSources /\ [][NextParallelSources]_vars

----------------------------------------------------------------------------
(* The pipelines: run_demo_pipeline (src/demo.py) and the harness of
   src/redactor/llm_client.py, with GeminiClient *)

\* llm_client.py, line 63
MODEL_NAME == "models/gemini-2.5-flash"

\* GeminiClient.__init__, lines 44-71: without a key no model is made
GeminiClient(api_key) ==
    IF api_key = None
    THEN [api_key |-> api_key, model |-> None, api_key_found |-> FALSE]
    ELSE [api_key |-> api_key, model |-> MODEL_NAME, api_key_found |-> TRUE]

\* llm_client.py, line 117: the prompt without PII the harness sends first
safe_prompt == <<"?">>

\* send, lines 84 and 92: the error message returned in place of a response
error_msg == <<"!">>

pipelineRest == <<nlp, candidates, program, text, entities, labels_to_redact,
                  sorted_entities, label_counts, redacted_text, assigned, idx,
                  placeholder_map, restored_text, restored_log, warned_log, previous>>

\* demo.py, lines 30-44, and llm_client.py, lines 108-113: the components are
\* made; without the API key neither script goes on
PipelineStart ==
    /\ pc = "pipeline"
    /\ gemini_client' = Some(GeminiClient(gemini_client[1].api_key))
    /\ pc' = IF ~GeminiClient(gemini_client[1].api_key).api_key_found THEN "refused"
             ELSE IF program = "demo.py" THEN "detect"
             ELSE "send_safe_prompt"
    /\ UNCHANGED <<sent_prompts, llm_output>>
    /\ UNCHANGED pipelineRest
    /\ UNCHANGED imageVars

\* The prompt the script is about to send
PromptAt(at) == IF at = "send_safe_prompt" THEN safe_prompt ELSE Chars(redacted_text)

\* GeminiClient.send, lines 83-89, called at llm_client.py 119 and 144 and at
\* demo.py 79: without a model the error message comes back at once, else the
\* prompt goes to generate_content
SendCall ==
    /\ pc \in {"send_safe_prompt", "redacted"}
    /\ program /= None
    /\ IF gemini_client[1].model = None
       THEN /\ llm_output' = error_msg
            /\ pc' = IF pc = "send_safe_prompt" THEN "detect" ELSE "answered"
            /\ UNCHANGED sent_prompts
       ELSE /\ sent_prompts' = Append(sent_prompts, PromptAt(pc))
            /\ pc' = IF pc = "send_safe_prompt" THEN "waiting_safe_prompt" ELSE "waiting"
            /\ UNCHANGED llm_output
    /\ UNCHANGED gemini_client
    /\ UNCHANGED pipelineRest
    /\ UNCHANGED imageVars

\* send, lines 89-94: generate_content returns the response, or raises and
\* the error message is returned
SendReturn ==
    /\ pc \in {"waiting_safe_prompt", "waiting"}
    /\ llm_output' \in {sent_prompts[Len(sent_prompts)], error_msg}
    /\ pc' = IF pc = "waiting_safe_prompt" THEN "detect" ELSE "answered"
    /\ UNCHANGED <<gemini_client, sent_prompts>>
    /\ UNCHANGED pipelineRest
    /\ UNCHANGED imageVars

\* demo.py, lines 60-69: the demo returns when nothing was detected;
\* llm_client.py, lines 136-139: the harness redacts whatever was detected
AfterDetect ==
    /\ pc = "detected"
    /\ program /= None
    /\ pc' = IF program = "demo.py" /\ entities = <<>> THEN "returned" ELSE "redact"
    /\ UNCHANGED <<gemini_client, sent_prompts, llm_output>>
    /\ UNCHANGED pipelineRest
    /\ UNCHANGED imageVars

\* The text of a run and what the detection sources find in it
InitPipeline ==
    /\ pc = "pipeline"
    /\ program \in {"demo.py", "llm_client.py"}
    /\ gemini_client \in {Some([api_key |-> k, model |-> None, api_key_found |-> FALSE]) :
                              k \in {None, "key"}}
    /\ sent_prompts = <<>>
    /\ nlp \in {"en_core_web_sm", None}
    /\ text \in BoundedSeq(TextAlphabet, MaxTextLen - 1)
    /\ candidates \in BoundedSeq(EntitiesIn(text), MaxCandidates - 1)
    /\ entities = <<>>
    /\ labels_to_redact = Nothing
    /\ sorted_entities = <<>>
    /\ idx = 1
    /\ label_counts = [l \in Labels |-> 0]
    /\ redacted_text = <<>>
    /\ placeholder_map = <<>>
    /\ assigned = <<>>
    /\ NoRestore
    /\ NoImage

NextPipeline ==
    \/ PipelineStart \/ PIIDetect \/ AfterDetect
    \/ RedactCall \/ RedactEntity \/ RedactReturn
    \/ SendCall \/ SendReturn

SpecPipeline == InitPipeline /\ [][NextPipeline]_vars

\* The steps the script itself takes; SendReturn is the answer of the
\* inference service, which generate_content (llm_client.py, line 89) awaits
\* without a timeout, so nothing obliges it to happen
PipelineOwnSteps ==
    \/ PipelineStart \/ PIIDetect \/ AfterDetect
    \/ RedactCall \/ RedactEntity \/ RedactReturn
    \/ SendCall

SpecPipelineFair == SpecPipeline /\ WF_vars(PipelineOwnSteps)

----------------------------------------------------------------------------
(* Placeholder assignment in both variants *)

InitPlaceholders == InitRedact \/ InitImage

NextPlaceholders == NextRedact \/ NextImage

SpecPlaceholders == InitPlaceholders /\ [][NextPlaceholders]_vars

----------------------------------------------------------------------------
(* ImageRestorer.restore: the restoration engine that returns statistics.
   Its file is imported by src/redactor/image/__init__.py and used by
   src/demo_image.py, lines 165-178. *)

\* The placeholder syntax: a bracketed TYPE_ID
PlaceholderPattern(s) ==
    /\ Len(s) >= 5
    /\ s[1] = "["
    /\ s[Len(s)] = "]"
    /\ \E u \in 3..(Len(s) - 2) :
          /\ s[u] = "_"
          /\ \A i \in 2..(u - 1) : s[i] = "_" \/ \E n \in 1..26 : Letters[n] = s[i]
          /\ \A i \in (u + 1)..(Len(s) - 1) :
                \/ \E n \in 1..26 : Letters[n] = s[i]
                \/ \E n \in 1..10 : Digits[n] = s[i]

\* Hallucination pass: the tokens of the placeholder syntax in the output from
\* offset k on, scanned left to right
RECURSIVE FindPlaceholders(_, _)
FindPlaceholders(output, k) ==
    IF k >= Len(output) THEN <<>>
    ELSE IF \E n \in 1..(Len(output) - k) : PlaceholderPattern(SubSeq(output, k + 1, k + n))
         THEN LET n == CHOOSE n \in 1..(Len(output) - k) :
                           PlaceholderPattern(SubSeq(output, k + 1, k + n))
              IN  <<SubSeq(output, k + 1, k + n)>> \o FindPlaceholders(output, k + n)
    ELSE FindPlaceholders(output, k + 1)

\* The values of a list, each once, in the order of their first occurrence
RECURSIVE Unique(_)
Unique(s) ==
    IF s = <<>> THEN <<>>
    ELSE LET rest == Unique(SubSeq(s, 1, Len(s) - 1))
         IN  IF InList(s[Len(s)], rest) THEN rest ELSE Append(rest, s[Len(s)])

\* A policy that takes every entry as restorable, whatever its flag
RestorableOrNot(entry) == entry.v.restorable \in BOOLEAN

\* Restoration policy: only entries whose restorable flag is true are rewritten
Restorable(entry) == entry.v.restorable

\* A test that takes a token as verified only if its entry is restorable
NotRestorable(m, token) ==
    ~\E i \in 1..Len(m) : m[i].k = token /\ m[i].v.restorable

\* Hallucination pass: a token is hallucinated when no key of the mapping equals it
Unverified(m, token) == ~\E i \in 1..Len(m) : m[i].k = token

\* Restoration pass, from entry k on: every restorable entry whose placeholder
\* occurs in the output has every occurrence replaced by the original value
RECURSIVE RestorationPass(_, _, _, _)
RestorationPass(working, output, m, k) ==
    IF k > Len(m) THEN working
    ELSE IF Restorable(m[k]) /\ Contains(Tag(output), m[k].k)
         THEN RestorationPass(Replace(working, m[k].k, m[k].v.original_text), output, m, k + 1)
    ELSE RestorationPass(working, output, m, k + 1)

\* The statistics returned with the restored text
RestorationStats(output, m) ==
    LET found == FindPlaceholders(output, 0)
        IsRestored(entry) == Restorable(entry) /\ Contains(Tag(output), entry.k)
        IsUnused(entry) == ~Contains(Tag(output), entry.k)
        IsHallucinated(token) == Unverified(m, token)
        restored == SelectSeq(m, IsRestored)
        unused == SelectSeq(m, IsUnused)
    IN  [total_placeholders_found |-> Len(found),
         restored_count |-> Len(restored),
         restored_placeholders |-> [i \in 1..Len(restored) |-> restored[i].k],
         hallucinated_placeholders |-> Unique(SelectSeq(found, IsHallucinated)),
         unused_placeholders |-> [i \in 1..Len(unused) |-> unused[i].k]]

\* restorer.restore(simulated_llm_response, mapping)
ImageRestore ==
    /\ pc = "image_restore"
    /\ restored_text' = RestorationPass(Tag(llm_output), llm_output, mapping, 1)
    /\ restoration_stats' = Some(RestorationStats(llm_output, mapping))
    /\ pc' = "image_restored"
    /\ UNCHANGED <<llm_output, restored_log, warned_log, previous>>
    /\ UNCHANGED <<draw_borders, image, redacted_image, raised, redacted_log, skipped_log,
                   failed_log, mapping>>
    /\ UNCHANGED detectorVars
    /\ UNCHANGED <<idx, placeholder_map>>
    /\ UNCHANGED detectVars
    /\ UNCHANGED textVars

\* Original values of restorable entries: OCR text, which may itself read as a
\* placeholder
OriginalTexts == {<<"y">>, Placeholder(<<"P">>, <<"B">>)}

\* Mapping records: the original text and the restorable flag
MappingEntries ==
    {[k |-> key, v |-> [original_text |-> value, restorable |-> flag]] :
        key \in MapKeys, value \in OriginalTexts, flag \in BOOLEAN}

Mappings == {m \in BoundedSeq(MappingEntries, MaxMapEntries) :
                \A i, j \in 1..Len(m) : i /= j => m[i].k /= m[j].k}

\* A call restore(output, mapping) with any output and any mapping
InitImageRestore ==
    /\ pc = "image_restore"
    /\ llm_output \in Outputs
    /\ mapping \in Mappings
    /\ restored_text = <<>>
    /\ restored_log = <<>>
    /\ warned_log = <<>>
    /\ previous = Nothing
    /\ restoration_stats = Nothing
    /\ ocr_reader = None
    /\ enable_object_detection = FALSE
    /\ _face_counter = 0
    /\ _text_counter = 0
    /\ _object_counter = 0
    /\ all_entities = <<>>
    /\ metadata = Nothing
    /\ backend_answers = Nothing
    /\ source_runs = Nothing
    /\ draw_borders = TRUE
    /\ image = None
    /\ redacted_image = Nothing
    /\ raised = None
    /\ redacted_log = <<>>
    /\ skipped_log = <<>>
    /\ failed_log = <<>>
    /\ idx = 1
    /\ placeholder_map = <<>>
    /\ NoDetect
    /\ NoRedact

NextImageRestore == ImageRestore

SpecImageRestore == InitImageRestore /\ [][NextImageRestore]_vars

----------------------------------------------------------------------------
(* Vocabulary of the claims *)

\* No two spans intersect: of any two entities, one ends where or before the
\* other starts
NonOverlapping(es) ==
    \A i, j \in 1..Len(es) :
        i /= j => (es[i].end <= es[j].start \/ es[j].end <= es[i].start)

\* Every span holds at least one character
NonEmptySpans(es) == \A i \in 1..Len(es) : es[i].start < es[i].end

DistinctStarts(es) ==
    \A i, j \in 1..Len(es) : i /= j => es[i].start /= es[j].start

SortedByStart(es) == \A i \in 1..(Len(es) - 1) : es[i].start <= es[i + 1].start

StrictlyAscending(es) == \A i \in 1..(Len(es) - 1) : es[i].start < es[i + 1].start

\* The 0-based offset p of the document lies in some entity's span
Covered(es, p) == \E i \in 1..Len(es) : es[i].start <= p /\ p < es[i].end

\* The inserted characters of a working text, in order
RECURSIVE Inserted(_)
Inserted(t) ==
    IF t = <<>> THEN <<>>
    ELSE IF Head(t).src = 0 THEN <<Head(t).c>> \o Inserted(Tail(t))
    ELSE Inserted(Tail(t))

Reverse(s) == [i \in 1..Len(s) |-> s[Len(s) + 1 - i]]

\* Where a stable descending sort by start puts the i-th entity of es
DescPos(es, i) ==
    1 + Cardinality({j \in 1..Len(es) : es[j].start > es[i].start})
      + Cardinality({j \in 1..(i - 1) : es[j].start = es[i].start})

\* The placeholder redact gave to the i-th entity of its argument
PlaceholderOf(i) == assigned[DescPos(entities, i)]

MapHas(m, key) == \E i \in 1..Len(m) : m[i].k = key

MapGet(m, key) == m[CHOOSE i \in 1..Len(m) : m[i].k = key].v

\* T[prev:s_k] + p_k + T[e_k:s_k+1] + ... + p_n + T[e_n:], from entity k on
RECURSIVE Interleaved(_, _, _, _)
Interleaved(T, es, k, prev) ==
    IF k > Len(es) THEN PySlice(Tag(T), prev, Len(T))
    ELSE PySlice(Tag(T), prev, es[k].start) \o Fresh(PlaceholderOf(k))
         \o Interleaved(T, es, k + 1, es[k].end)

IsUpper(ch) == \E i \in 1..26 : Letters[i] = ch

IsDigit(ch) == \E i \in 1..10 : Digits[i] = ch

\* The placeholder syntax [TYPE_ID]
IsPlaceholderShaped(s) ==
    /\ Len(s) >= 5
    /\ s[1] = "["
    /\ s[Len(s)] = "]"
    /\ \E u \in 3..(Len(s) - 2) :
          /\ s[u] = "_"
          /\ \A i \in 2..(u - 1) : IsUpper(s[i]) \/ s[i] = "_"
          /\ \A i \in (u + 1)..(Len(s) - 1) : IsUpper(s[i]) \/ IsDigit(s[i])

\* The occurrences <<offset, length>> of placeholder-shaped tokens in X
TokenOccurrences(X) ==
    {kn \in (0..Len(X)) \X (1..Len(X)) :
        /\ kn[1] + kn[2] <= Len(X)
        /\ IsPlaceholderShaped(SubSeq(X, kn[1] + 1, kn[1] + kn[2]))}

TokenAt(X, kn) == SubSeq(X, kn[1] + 1, kn[1] + kn[2])

\* The occurrence kn of the text the operation started from stands in t,
\* character for character and unbroken
Survives(t, X, kn) ==
    \E j \in 0..Len(t) :
        /\ j + kn[2] <= Len(t)
        /\ \A i \in 1..kn[2] : t[j + i].src = kn[1] + i /\ t[j + i].c = X[kn[1] + i]

\* No character of the occurrence kn is left in t
Gone(t, kn) == \A i \in 1..Len(t) : ~(kn[1] < t[i].src /\ t[i].src <= kn[1] + kn[2])

----------------------------------------------------------------------------
(* Claims *)

\* C1: for any text T and any pairwise non-overlapping entities detected in T,
\* restore applied to the text and the map returned by redact(T, E) returns T.
\* The entities are taken as the detector emits them, no two starting at the
\* same offset, which only narrows the claim.
C1_RoundTrip ==
    (pc = "restored" /\ NonOverlapping(entities) /\ NonEmptySpans(entities))
        => Chars(restored_text) = text

\* C2: every placeholder-shaped token of the output that is not a key of the
\* map stands unmodified in the restored text, and every occurrence of a mapped
\* placeholder in the output is replaced.
C2_HallucinationPassThrough ==
    pc = "restored" =>
        \A kn \in TokenOccurrences(llm_output) :
            IF TokenAt(llm_output, kn) \in Keys(placeholder_map)
            THEN Gone(restored_text, kn)
            ELSE Survives(restored_text, llm_output, kn)

\* {[P_A]: y} and "[P_A]x[P_B]" give "yx[P_B]"
C2_Witness ==
    /\ pc = "restored"
    /\ llm_output = Placeholder(<<"P">>, <<"A">>) \o <<"x">> \o Placeholder(<<"P">>, <<"B">>)
    /\ placeholder_map = <<[k |-> Placeholder(<<"P">>, <<"A">>), v |-> <<"y">>]>>
    /\ Chars(restored_text) = <<"y", "x">> \o Placeholder(<<"P">>, <<"B">>)

\* C5: when a map entry's placeholder does not occur in the output, that entry
\* changes nothing in the text and the placeholder is reported (the warning
\* of restorer.py line 71) as not found.
C5_UnusedPlaceholderReported ==
    pc = "restored" =>
        \A i \in 1..Len(placeholder_map) :
            ~Contains(Tag(llm_output), placeholder_map[i].k) =>
                /\ InList(placeholder_map[i].k, warned_log)
                /\ ~InList(placeholder_map[i].k, restored_log)

\* C6: restore(restore(X, M), M) = restore(X, M)
C6_Idempotent ==
    (pc = "restored" /\ previous /= Nothing) => Chars(restored_text) = previous[1]

\* C7: for any list of candidates (overlapping, nested, duplicate and
\* zero-length spans included) the list _deduplicate_and_sort_entities returns
\* is sorted by ascending start and no two returned spans intersect.
C7_DedupSortedDisjoint ==
    pc = "detected" => SortedByStart(entities) /\ NonOverlapping(entities)

C7_Witness ==
    /\ pc = "detected"
    /\ Len(candidates) = 3
    /\ ~NonOverlapping(candidates)
    /\ ~SortedByStart(candidates)
    /\ \E i \in 1..3 : candidates[i].start = candidates[i].end
    /\ Len(entities) = 2

\* C8 as stated: for any text and ANY entity list, no character of T covered
\* by an entity span survives in the text redact returns.
C8_NoCoveredCharSurvives_AnyList ==
    pc = "redacted" =>
        \A k \in 1..Len(redacted_text) :
            redacted_text[k].src /= 0 => ~Covered(entities, redacted_text[k].src - 1)

\* C8 as amended: for pairwise non-overlapping entities no two of which start at
\* the same offset, the returned text consists only of characters of T outside
\* every entity span, plus the assigned placeholders; no covered character
\* survives.
C8_NoCoveredCharSurvives ==
    (pc = "redacted" /\ NonOverlapping(entities) /\ DistinctStarts(entities)) =>
        /\ \A k \in 1..Len(redacted_text) :
              redacted_text[k].src /= 0 =>
                  /\ ~Covered(entities, redacted_text[k].src - 1)
                  /\ redacted_text[k].c = text[redacted_text[k].src]
        /\ Inserted(redacted_text) = Flatten(Reverse(assigned))

C8_Witness ==
    /\ pc = "redacted"
    /\ NonOverlapping(entities) /\ DistinctStarts(entities)
    /\ Len(entities) = 2
    /\ \E i \in 1..2 : entities[i].start < entities[i].end
    /\ \E k \in 1..Len(redacted_text) : redacted_text[k].src /= 0

\* C9 as stated: for entities e1..en sorted by start and pairwise
\* non-overlapping, redact returns T[0:s1] + p1 + T[e1:s2] + ... + pn + T[en:]
\* and the map sends each pi to T[si:ei].
C9_SubstitutionResult_Sorted ==
    (pc = "redacted" /\ SortedByStart(entities) /\ NonOverlapping(entities)) =>
        /\ redacted_text = Interleaved(text, entities, 1, 0)
        /\ \A i \in 1..Len(entities) :
              /\ MapHas(placeholder_map, PlaceholderOf(i))
              /\ MapGet(placeholder_map, PlaceholderOf(i))
                     = PySlice(text, entities[i].start, entities[i].end)

\* C9 as amended: the same result for entities e1..en of strictly ascending
\* start (no two start at the same offset) and pairwise non-overlapping.
C9_SubstitutionResult ==
    (pc = "redacted" /\ StrictlyAscending(entities) /\ NonOverlapping(entities)) =>
        /\ redacted_text = Interleaved(text, entities, 1, 0)
        /\ \A i \in 1..Len(entities) :
              /\ MapHas(placeholder_map, PlaceholderOf(i))
              /\ MapGet(placeholder_map, PlaceholderOf(i))
                     = PySlice(text, entities[i].start, entities[i].end)

C9_Witness ==
    /\ pc = "redacted"
    /\ StrictlyAscending(entities) /\ NonOverlapping(entities)
    /\ Len(entities) = 2
    /\ NonEmptySpans(entities)
    /\ entities[1].start > 0

\* No two positions of a list hold the same value
PairwiseDistinct(s) == \A i, j \in 1..Len(s) : i /= j => s[i] /= s[j]

PlaceholdersOf(es) == [i \in 1..Len(es) |-> es[i].placeholder]

\* C10: within one Redactor.redact call and within one ImageDetector.detect
\* run no two entities receive the same placeholder, so the map redact returns
\* holds as many entries as entities were redacted (one per loop turn of the
\* text redactor, one per "Redacted entity" line of the image redactor).
C10_PlaceholdersUnique ==
    /\ pc = "redacted" =>
          /\ PairwiseDistinct(assigned)
          /\ Len(assigned) = Len(entities)
          /\ Len(placeholder_map) = Len(entities)
    /\ pc \in {"image_detected", "image_redact_loop", "image_redacted"} =>
          PairwiseDistinct(PlaceholdersOf(all_entities))
    /\ pc = "image_redacted" => Len(mapping) = Len(redacted_log)

\* A face, a vehicle and a device found in one image, all redacted
C10_Witness ==
    /\ /\ pc = "image_redacted"
       /\ Len(all_entities) = 3
       /\ all_entities[1].type = "FACE"
       /\ all_entities[2].type = "VEHICLE"
       /\ all_entities[3].type = "DEVICE"
       /\ Len(mapping) = 3

\* The values of a list, as a set
Range(s) == {s[i] : i \in 1..Len(s)}

\* The placeholder-shaped tokens of the bounds: those the output or the
\* mapping can hold
ShapedTokens(X, m) ==
    {TokenAt(X, kn) : kn \in TokenOccurrences(X)} \cup {m[i].k : i \in 1..Len(m)}

ExpectedId(count) == IF count < 26 THEN <<Letters[count + 1]>> ELSE Str(count)

\* The ID of a placeholder: what stands between its last "_" and its "]"
IdPart(placeholder) ==
    LET u == CHOOSE u \in 1..Len(placeholder) :
                 /\ placeholder[u] = "_"
                 /\ \A v \in (u + 1)..Len(placeholder) : placeholder[v] /= "_"
    IN  SubSeq(placeholder, u + 1, Len(placeholder) - 1)

\* How many entities before the i-th, in the order of assignment, have its type
EarlierOfLabel(es, i) == Cardinality({j \in 1..(i - 1) : es[j].label = es[i].label})

EarlierOfType(es, i) == Cardinality({j \in 1..(i - 1) : es[j].type = es[i].type})

\* C11: wherever placeholders are assigned, the ID given to the count-th
\* entity of a type (count from 0) is the letter A..Z for counts 0..25 and the
\* decimal count for counts of 26 and more.
C11_IdEncoding ==
    /\ pc = "redacted" =>
          \A i \in 1..Len(assigned) :
              IdPart(assigned[i]) = ExpectedId(EarlierOfLabel(sorted_entities, i))
    /\ pc = "image_detected" =>
          \A i \in 1..Len(all_entities) :
              IdPart(all_entities[i].placeholder) = ExpectedId(EarlierOfType(all_entities, i))

\* C12 as stated: when one document holds 27 entities of one type, their IDs,
\* read in the order of the entity list (ascending start), are A, B, ..., Z, 26.
C12_OverflowOrder ==
    (pc = "redacted" /\ Len(entities) = 27 /\ StrictlyAscending(entities)
        /\ \A i \in 1..Len(entities) : entities[i].label = entities[1].label) =>
      \A i \in 1..Len(entities) : IdPart(PlaceholderOf(i)) = ExpectedId(i - 1)

\* C12 as amended: the IDs are A, B, ..., Z, 26 in the order in which redact
\* assigns them, which is descending start: the last entity of the document
\* receives A and the first receives 26.
C12_OverflowOrderDescending ==
    (pc = "redacted" /\ Len(entities) = 27 /\ StrictlyAscending(entities)
        /\ \A i \in 1..Len(entities) : entities[i].label = entities[1].label) =>
      /\ \A i \in 1..Len(assigned) : IdPart(assigned[i]) = ExpectedId(i - 1)
      /\ \A i \in 1..Len(entities) :
            IdPart(PlaceholderOf(i)) = ExpectedId(Len(entities) - i)

\* 27 entities of one label redacted: the first of the document has the ID 26
C12_Witness ==
    /\ pc = "redacted"
    /\ Len(entities) = 27
    /\ IdPart(PlaceholderOf(1)) = <<"2", "6">>
    /\ IdPart(PlaceholderOf(27)) = <<"A">>

\* The characters of the image entity types
TypeChars ==
    [type \in {"FACE", "OCR_TEXT", "VEHICLE", "DEVICE"} |->
        CASE type = "FACE" -> <<"F", "A", "C", "E">>
          [] type = "OCR_TEXT" -> <<"O", "C", "R", "_", "T", "E", "X", "T">>
          [] type = "VEHICLE" -> <<"V", "E", "H", "I", "C", "L", "E">>
          [] type = "DEVICE" -> <<"D", "E", "V", "I", "C", "E">>]

\* '[' + type + '_' + ID + ']'
Formatted(type, placeholder) ==
    placeholder = <<"[">> \o type \o <<"_">> \o IdPart(placeholder) \o <<"]">>

\* C13: every assigned placeholder is exactly '[' + the entity's type + '_' +
\* its ID + ']', for text entities and for every image entity type.
C13_PlaceholderFormat ==
    /\ pc = "redacted" =>
          \A i \in 1..Len(assigned) : Formatted(sorted_entities[i].label, assigned[i])
    /\ pc = "image_detected" =>
          \A i \in 1..Len(all_entities) :
              Formatted(TypeChars[all_entities[i].type], all_entities[i].placeholder)

\* C15: every record of the mapping redaction returns carries a restorable
\* flag, true for OCR text and false for faces, vehicles and devices.
C15_RestorableFlag ==
    pc = "image_redacted" =>
        \A i \in 1..Len(mapping) :
            /\ "restorable" \in DOMAIN mapping[i].v
            /\ mapping[i].v.restorable = (mapping[i].v.original_type = "OCR_TEXT")

\* The prefix under which the image detector counts a type
PrefixOf(type) ==
    CASE type = "FACE" -> <<"F", "A", "C", "E">>
      [] type = "OCR_TEXT" -> <<"T", "E", "X", "T">>
      [] OTHER -> <<"O", "B", "J", "E", "C", "T">>

\* How many entities before the i-th are counted under its prefix
EarlierOfPrefix(es, i) ==
    Cardinality({j \in 1..(i - 1) : PrefixOf(es[j].type) = PrefixOf(es[i].type)})

\* C14: the counters start anew in every run: after any earlier redact calls
\* on one Redactor, or detect runs on one ImageDetector, the placeholders of
\* the next run are those a new object assigns for the same input (the first
\* entity counted under a label or prefix gets A, the next B, ...), and no
\* counter value carries over.
C14_CountersReset ==
    /\ pc = "redacted" =>
          \A i \in 1..Len(assigned) :
              assigned[i] = <<"[">> \o sorted_entities[i].label \o <<"_">>
                               \o ExpectedId(EarlierOfLabel(sorted_entities, i)) \o <<"]">>
    /\ pc = "image_detected" =>
          /\ \A i \in 1..Len(all_entities) :
                all_entities[i].placeholder =
                    <<"[">> \o PrefixOf(all_entities[i].type) \o <<"_">>
                        \o <<Letters[EarlierOfPrefix(all_entities, i) + 1]>> \o <<"]">>
          /\ _face_counter + _text_counter + _object_counter = Len(all_entities)

\* A detector that redacted two entities of an earlier image has found two
\* faces in the next one
C14_Witness ==
    /\ pc = "image_detected"
    /\ Len(mapping) = 2
    /\ Len(all_entities) = 2
    /\ all_entities[1].type = "FACE" /\ all_entities[2].type = "FACE"
    /\ \E i \in 1..2 : mapping[i].v.original_type = "FACE"

\* The entities of the list that carry a bounding box
Boxed(es) == {i \in 1..Len(es) : es[i].bbox /= Nothing}

\* The entities whose drawing raised
Failed(es, log) == {i \in 1..Len(es) : InList(es[i].placeholder, log)}

SmallBox(bbox) ==
    bbox[3] - bbox[1] < MIN_LABEL_SIZE \/ bbox[4] - bbox[2] < MIN_LABEL_SIZE

\* The image carries the draw call
Drawn(img, op, bbox, fill) ==
    \E k \in 1..Len(img) :
        img[k].op = op /\ img[k].bbox = bbox /\ img[k].fill = fill

\* The image carries the label
Labelled(img, label) ==
    \E k \in 1..Len(img) : img[k].op = "text" /\ img[k].text = label

\* The box widened by the border
BorderOf(bbox) ==
    <<bbox[1] - border_width, bbox[2] - border_width,
      bbox[3] + border_width, bbox[4] + border_width>>

\* The blackout, and the border if borders are on, are on the image
BlackedOut(img, borders, bbox) ==
    /\ Drawn(img, "rectangle", bbox, "black")
    /\ borders => Drawn(img, "rectangle", BorderOf(bbox), "red")

Located(es) == {i \in 1..Len(es) : HasKey(es[i], "start") /\ HasKey(es[i], "end")}

\* The image variant: an entity without a box is logged as skipped and gets no
\* record, every entity with a box in order is blacked out and mapped
ImageSkipsUnboxed ==
    pc = "image_redacted" =>
        \A i \in 1..Len(all_entities) :
            IF all_entities[i].bbox = Nothing
            THEN /\ InList(all_entities[i].placeholder, skipped_log)
                 /\ ~MapHas(mapping, all_entities[i].placeholder)
            ELSE Ordered(all_entities[i].bbox[1]) =>
                    /\ BlackedOut(redacted_image[1].ops, draw_borders, all_entities[i].bbox[1])
                    /\ MapHas(mapping, all_entities[i].placeholder)

\* C18: in the text and in the image variant, an entity that lacks its
\* location (start/end span, bounding box) is skipped, every other entity is
\* still redacted and mapped, and redact does not abort.
C18_MalformedSkipped ==
    /\ pc /= "redact_raised"
    /\ pc = "redacted" =>
          /\ Len(assigned) = Cardinality(Located(entities))
          /\ Len(placeholder_map) = Cardinality(Located(entities))
    /\ ImageSkipsUnboxed

\* The text variant for an empty entity list: the text comes back as it was,
\* with an empty map
TextUntouched == redacted_text = Tag(text) /\ placeholder_map = <<>>

C20_InputErrorSurfaced ==
    /\ pc = "image_raised" =>
          /\ raised \in {"FileNotFoundError", "IOError"}
          /\ image = None
          /\ redacted_image = Nothing
          /\ mapping = <<>>
          /\ redacted_log = <<>>
    /\ pc \in {"image_redact_loop", "image_redacted"} =>
          /\ raised = None
          /\ image \in ImageModes
          /\ redacted_image /= Nothing

\* redact has failed on a corrupt file although the list held two entities
C20_Witness ==
    /\ pc = "image_raised"
    /\ raised = "IOError"
    /\ Len(all_entities) = 2
    /\ redacted_image = Nothing
    /\ mapping = <<>>

\* What each source returns when detect calls the three one after the other
InOrderResults ==
    [source \in Sources |->
        CASE source = "faces" -> detect_faces(backend_answers[1].faces, 0)
          [] source = "texts" -> detect_text(ocr_reader, backend_answers[1].texts, 0)
          [] source = "objects" ->
                detect_objects(enable_object_detection, backend_answers[1].objects, 0)]

\* s is the beginning of t
StartsWith(t, s) == Len(s) <= Len(t) /\ SubSeq(t, 1, Len(s)) = s

\* C24: whatever the order and interleaving in which the face, text and object
\* sources run and finish, every entity gets the placeholder it gets when the
\* sources run one after the other, and no two entities of the run share a
\* placeholder.
C24_DeterministicIds ==
    /\ pc = "image_sources" =>
          \A source \in Sources :
              /\ StartsWith(InOrderResults[source], source_runs[1][source].results)
              /\ source_runs[1][source].returned =>
                    source_runs[1][source].results = InOrderResults[source]
    /\ pc = "image_detected" /\ source_runs /= Nothing =>
          /\ all_entities = InOrderResults["faces"] \o InOrderResults["texts"]
                                \o InOrderResults["objects"]
          /\ \A i, j \in 1..Len(all_entities) :
                all_entities[i].placeholder = all_entities[j].placeholder => i = j

\* The object source has returned an entity and the text source has found one
\* while the face source, which has found one, is still running
C24_Witness ==
    /\ pc = "image_sources"
    /\ source_runs[1]["objects"].returned
    /\ Len(source_runs[1]["objects"].results) = 1
    /\ Len(source_runs[1]["texts"].results) = 1
    /\ ~source_runs[1]["faces"].returned
    /\ Len(source_runs[1]["faces"].results) = 1

\* What the backend returned passes the filters of its source (lines 156,
\* 210-213)
Passing(source, item) ==
    CASE source = "faces" -> TRUE
      [] source = "texts" -> item.confidence >= confidence_threshold
      [] source = "objects" ->
            item.class_name \in DOMAIN RELEVANT_OBJECTS /\ item.conf >= OBJECT_CONFIDENCE

\* The box the source puts on what the backend returned
BoxOf(source, item) ==
    CASE source = "faces" -> <<item[4], item[1], item[2], item[3]>>
      [] source = "texts" -> normalized_bbox(item.bbox_polygon)
      [] source = "objects" -> item.xyxy

\* The entity types of a source
TypesOf(source) ==
    CASE source = "faces" -> {"FACE"}
      [] source = "texts" -> {"OCR_TEXT"}
      [] source = "objects" -> {"VEHICLE", "DEVICE"}

\* The source failed in the run: its backend raised
FailedInRun(source) == ~Unavailable(source) /\ backend_answers[1][source].raises

\* The source ran to its end
Working(source) == ~Unavailable(source) /\ ~backend_answers[1][source].raises

\* The image run holds every candidate of the sources that work
ImageSourcesKept ==
    pc = "image_detected" /\ source_runs /= Nothing =>
        \A source \in Sources :
            Working(source) =>
                \A k \in 1..Len(backend_answers[1][source].results) :
                    Passing(source, backend_answers[1][source].results[k]) =>
                        \E i \in 1..Len(all_entities) :
                            /\ all_entities[i].type \in TypesOf(source)
                            /\ all_entities[i].bbox
                                  = Some(BoxOf(source, backend_answers[1][source].results[k]))

\* C21: if one detection source fails or is unavailable during a run, the run
\* does not raise and its result holds every candidate of the remaining
\* sources, in ImageDetector.detect (face, OCR, object) and in
\* PIIDetector.detect (spaCy NER, e-mail regex).
C21_GracefulDegradation ==
    /\ ImageSourcesKept
    /\ pc = "detected" =>
          entities = _deduplicate_and_sort_entities(
                         IF nlp = None THEN regex_emails(candidates) ELSE candidates)

\* C22: after a run in which a source failed at run time, the metadata marks
\* that source as not contributing: it does not carry the value it carries for
\* a source that ran to its end.
C22_MetadataMarksFailedSource ==
    pc = "image_detected" /\ source_runs /= Nothing =>
        /\ FailedInRun("faces") => metadata[1].model_info.face_detection /= "face_model"
        /\ FailedInRun("texts") => metadata[1].model_info.ocr /= "easyocr"
        /\ FailedInRun("objects") => metadata[1].model_info.object_detection /= "yolov8n"

\* C23: if the Gemini API key is missing or the spaCy model is not loaded, the
\* pipeline refuses to run and no prompt is ever sent to the inference
\* service.
C23_NoPromptWithoutBackend ==
    program /= None /\ (gemini_client[1].api_key = None \/ nlp = None) =>
        /\ sent_prompts = <<>>
        /\ pc \notin {"waiting_safe_prompt", "waiting", "answered"}

\* A prompt is with the inference service and send has not returned
AwaitingAnswer == pc \in {"waiting_safe_prompt", "waiting"}

\* C25: the external inference call is bounded by a timeout: whenever send is
\* waiting for the service, it eventually returns (with a response or with a
\* surfaced error), even when the service never answers.
C25_BoundedWaiting == AwaitingAnswer ~> ~AwaitingAnswer

\* Replacements are applied from the last start to the first
NonIncreasingStarts(es) == \A i \in 1..(Len(es) - 1) : es[i].start >= es[i + 1].start

\* The loop of redact is about to replace sorted_entities[idx]
AboutToReplace == pc = "redact_loop" /\ idx <= Len(sorted_entities)

\* The working text still equals the document on [0, end) of the entity
\* about to be replaced
PrefixIntact ==
    PySlice(redacted_text, 0, sorted_entities[idx].end)
        = PySlice(Tag(text), 0, sorted_entities[idx].end)

BackToFront ==
    /\ NonIncreasingStarts(sorted_entities)
    /\ AboutToReplace => PrefixIntact

\* C26 as stated: redact applies replacements in non-increasing start order,
\* and for pairwise non-overlapping entities the working text equals the
\* document on [0, end) of each entity at the moment it is replaced.
C26_BackToFront_NonOverlapping ==
    pc = "redact_loop" /\ NonOverlapping(entities) => BackToFront

\* C26: the same for pairwise non-overlapping entities no two of which start
\* at the same offset.
C26_BackToFront ==
    pc = "redact_loop" /\ NonOverlapping(entities) /\ DistinctStarts(entities)
        => BackToFront

\* The second of two disjoint entities is about to be replaced after the
\* first replacement changed the text behind it
C26_Witness ==
    /\ AboutToReplace
    /\ idx = 2
    /\ NonOverlapping(entities) /\ DistinctStarts(entities)
    /\ sorted_entities[2].end > 0
    /\ redacted_text /= Tag(text)
    /\ PrefixIntact

\* The entries of map m whose placeholder stands at 0-based offset k of out
EntriesAt(out, m, k) == {i \in 1..Len(m) : MatchAt(Tag(out), m[i].k, k)}

\* One simultaneous substitution, left to right from offset k: an occurrence
\* of a mapped placeholder becomes its original value, which is not looked
\* at again; every other character stays
RECURSIVE SubstituteAll(_, _, _)
SubstituteAll(out, m, k) ==
    IF k >= Len(out) THEN <<>>
    ELSE IF EntriesAt(out, m, k) /= {}
         THEN LET i == CHOOSE i \in EntriesAt(out, m, k) : TRUE
              IN  m[i].v \o SubstituteAll(out, m, k + Len(m[i].k))
         ELSE <<out[k + 1]>> \o SubstituteAll(out, m, k + 1)

\* C27: restore returns the output with every occurrence of each mapped
\* placeholder replaced by its original value in one simultaneous
\* substitution: inserted text is never replaced by another entry, whatever
\* the order of the map.
C27_SimultaneousSubstitution ==
    pc = "restored" =>
        Chars(restored_text) = SubstituteAll(llm_output, placeholder_map, 0)

\* The specified scan from the k-th sorted candidate on: a candidate is
\* accepted if and only if nothing is accepted yet or its start is at or after
\* the end of the last accepted one
RECURSIVE GreedyScan(_, _, _)
GreedyScan(sorted, k, accepted) ==
    IF k > Len(sorted) THEN accepted
    ELSE IF accepted = <<>> \/ sorted[k].start >= accepted[Len(accepted)].end
         THEN GreedyScan(sorted, k + 1, Append(accepted, sorted[k]))
         ELSE GreedyScan(sorted, k + 1, accepted)

SpecifiedDedup(es) == GreedyScan(SortByStartThenLongest(es), 1, <<>>)

\* detect has returned the de-duplicated candidates
Deduplicated == pc = "detected" /\ nlp /= None

\* C28 as stated: for every candidate list, zero-length candidates included,
\* _deduplicate_and_sort_entities returns exactly the list of the specified
\* greedy scan.
C28_GreedyScan_AnySpan ==
    Deduplicated => entities = SpecifiedDedup(candidates)

\* C28: for candidates of non-empty span, _deduplicate_and_sort_entities
\* returns exactly the list of the specified greedy scan, candidates that
\* start exactly where the last accepted one ends included.
C28_GreedyScan ==
    Deduplicated /\ NonEmptySpans(candidates) =>
        entities = SpecifiedDedup(candidates)

\* Three candidates of non-empty span: one accepted, one overlapping it and
\* dropped, one starting exactly at its end and accepted
C28_Witness ==
    /\ Deduplicated
    /\ NonEmptySpans(candidates)
    /\ Len(candidates) = 3
    /\ Len(entities) = 2
    /\ entities[2].start = entities[1].end
    /\ \E i \in 1..3 : candidates[i].start < entities[1].end
                         /\ candidates[i].end > entities[1].end

\* The characters of the span of e stand in the working text as they stood in
\* the document
LeftVerbatim(e) ==
    \E k \in 0..Len(redacted_text) :
        /\ k + (e.end - e.start) <= Len(redacted_text)
        /\ \A j \in 1..(e.end - e.start) : redacted_text[k + j].src = e.start + j

\* No character of the span of e is left, and the map holds its value
ReplacedAndMapped(e) ==
    /\ \A k \in 1..Len(redacted_text) :
           ~(e.start < redacted_text[k].src /\ redacted_text[k].src <= e.end)
    /\ \E i \in 1..Len(placeholder_map) : placeholder_map[i].v = e.entity

\* The list that was supplied names the label of e
Named(e) == labels_to_redact /= Nothing /\ InList(e.label, labels_to_redact[1])

NamedEntities == {i \in 1..Len(entities) : Named(entities[i])}

\* C29: with labels_to_redact supplied, exactly the entities whose label is in
\* the list are replaced and mapped and every other entity stands verbatim;
\* with None every entity is replaced and mapped.  (Entities pairwise
\* non-overlapping with distinct starts.)
C29_LabelFilter ==
    pc = "redacted" /\ NonOverlapping(entities) /\ DistinctStarts(entities) =>
        IF labels_to_redact /= Nothing
        THEN /\ Len(placeholder_map) = Cardinality(NamedEntities)
             /\ \A i \in 1..Len(entities) :
                    IF Named(entities[i]) THEN ReplacedAndMapped(entities[i])
                    ELSE LeftVerbatim(entities[i])
        ELSE /\ Len(placeholder_map) = Len(entities)
             /\ \A i \in 1..Len(entities) : ReplacedAndMapped(entities[i])

\* Pixel (x, y) lies in the box spanned by the two corners
InsideBox(bbox, x, y) ==
    /\ Min(bbox[1], bbox[3]) <= x /\ x <= Max(bbox[1], bbox[3])
    /\ Min(bbox[2], bbox[4]) <= y /\ y <= Max(bbox[2], bbox[4])

\* Every pixel of the box holds blackout, border or label colour
NothingOriginalIn(bbox) ==
    \A p \in Canvas :
        InsideBox(bbox, p[1], p[2]) =>
            PixelColour(redacted_image[1].ops, p[1], p[2]) \in {"black", "red", "white"}

====
